---- MODULE Spec2Model ----
(***************************************************************************)
(* A model of the content curation pipeline of telegram-news-poster:       *)
(* the URL cleaner (app/url_cleaner.py), the two relevance filters         *)
(* (app/config.py and app/main.py) and the deduplicator with its           *)
(* process-wide history (app/main.py).                                     *)
(*                                                                         *)
(* Python strings are TLA+ strings; TLC evaluates Len, SubSeq and \o on    *)
(* them, so str.lower() and the `in` substring test are computed           *)
(* character by character. An Optional[str] is a sequence of zero or one   *)
(* strings: None is << >> and the string s is << s >>.                     *)
(***************************************************************************)
EXTENDS Integers, Sequences, FiniteSets, TLC

\* ------------------------------------------------------------------------
\* Python built-ins used by the program
\* ------------------------------------------------------------------------

None == << >>

Some(s) == << s >>

\* str.lower() on one character (ASCII letters; every other character of the
\* model's strings is its own lower case).
LowerChar(c) ==
    CASE c = "A" -> "a"
      [] c = "B" -> "b"
      [] c = "C" -> "c"
      [] c = "D" -> "d"
      [] c = "E" -> "e"
      [] c = "F" -> "f"
      [] c = "G" -> "g"
      [] c = "H" -> "h"
      [] c = "I" -> "i"
      [] c = "J" -> "j"
      [] c = "K" -> "k"
      [] c = "L" -> "l"
      [] c = "M" -> "m"
      [] c = "N" -> "n"
      [] c = "O" -> "o"
      [] c = "P" -> "p"
      [] c = "Q" -> "q"
      [] c = "R" -> "r"
      [] c = "S" -> "s"
      [] c = "T" -> "t"
      [] c = "U" -> "u"
      [] c = "V" -> "v"
      [] c = "W" -> "w"
      [] c = "X" -> "x"
      [] c = "Y" -> "y"
      [] c = "Z" -> "z"
      [] OTHER -> c

\* The characters i..j of s in lower case, by halves (a text of n characters
\* takes log n nested evaluations).
RECURSIVE LowerFrom(_, _, _)
LowerFrom(s, i, j) ==
  IF i > j THEN ""
  ELSE IF i = j THEN LowerChar(SubSeq(s, i, i))
  ELSE LowerFrom(s, i, (i + j) \div 2) \o LowerFrom(s, (i + j) \div 2 + 1, j)

\* str.lower()
lower(s) == LowerFrom(s, 1, Len(s))

\* Python's `sub in s` on strings.
Contains(sub, s) ==
  \E i \in 1..(Len(s) - Len(sub) + 1) : SubSeq(s, i, i + Len(sub) - 1) = sub

\* The set of elements of a sequence.
Range(seq) == { seq[i] : i \in DOMAIN seq }

\* All sequences over S of length 0..n.
SeqsUpTo(S, n) == UNION { [1..k -> S] : k \in 0..n }

\* ------------------------------------------------------------------------
\* Settings (app/config.py): the defaults of the Settings fields
\* ------------------------------------------------------------------------

allowlist_keywords ==
  <<
     "AI", "artificial intelligence", "machine learning", "ML", "LLM", "GPT", "XR", "AR",
     "VR", "augmented reality", "virtual reality", "mixed reality", "headset", "optics",
     "pass-through", "SLAM", "hand tracking", "computer vision", "research", "paper",
     "benchmark", "SDK", "API", "framework", "model", "dataset", "tooling", "compiler",
     "library", "plugin", "DAW", "synth", "synthesis", "DSP", "audio engineering",
     "MIDI", "VST", "AAX", "AU", "firmware", "hardware", "silicon", "chip",
     "semiconductor", "sensor"
  >>

blocklist_keywords ==
  <<
     "game review", "walkthrough", "let's play", "let us play", "trailer", "teaser",
     "DLC", "season pass", "patch notes", "speedrun", "esports", "tournament",
     "giveaway", "preorder", "pre-order", "merch", "skins", "loot", "boss fight",
     "build guide", "weapon", "quest", "raid", "console", "PS5", "Xbox", "Switch",
     "preset pack", "sample pack", "expansion", "soundbank", "deal", "discount",
     "Black Friday", "freebie", "bundle", "preset browser", "theme", "Kontakt library",
     "rompler", "loop pack", "drum kit", "template", "review", "updated to v",
     "changelog", "compatibility update"
  >>

keywords ==
  <<
     "AI", "artificial intelligence", "machine learning", "ML", "GPT", "LLM", "XR",
     "virtual reality", "VR", "augmented reality", "AR", "mixed reality", "MR",
     "MusicTech", "music technology", "audio", "DAW", "VST", "plugin"
  >>

blocked_domains ==
  <<
     "accounts.google.com", "login.microsoftonline.com", "auth0.com", "okta.com",
     "id.atlassian.com", "github.com/login", "gitlab.com/users/sign_in", "subscribe.",
     "paywall.", "premium.", "plus.", "pro.", "upgrade.", "google-analytics.com",
     "googletagmanager.com", "facebook.com/tr", "doubleclick.net",
     "googlesyndication.com", "amazon-adsystem.com", "adsystem.amazon.com",
     "googlepubads.g.doubleclick.net", "ct.sendgrid.net", "sendgrid.net", "mailchi.mp",
     "l.facebook.com", "l.messenger.com", "t.co", "lnkd.in", "mail.google.com",
     "click.email.*", "links.mail.*", "go.pardot.com", "urldefense.com",
     "mandrillapp.com", "click.icptrack.com", "sparkloop.app", "beehiiv.com",
     "verge.link", "bit.ly", "tinyurl.com", "goo.gl", "ow.ly", "short.link"
  >>

banned_path_keywords ==
  <<
     "/login", "/signin", "/sign-in", "/register", "/signup", "/sign-up", "/auth",
     "/oauth", "/sso", "/authenticate", "/account", "/profile", "/dashboard",
     "/settings", "/subscribe", "/subscription", "/premium", "/upgrade", "/pricing",
     "/checkout", "/payment", "/billing", "/paywall", "/plus", "/pro", "/member",
     "/membership", "/track", "/analytics", "/pixel", "/beacon", "/metrics", "/utm_",
     "?utm_", "&utm_", "/click", "/redirect", "/admin", "/wp-admin", "/administrator",
     "/control", "/api/", "/webhook", "/callback", "/ping", "/health", "/unsubscribe",
     "/newsletter", "/email", "/mailchimp", "/campaign", "/drip", "/convertkit",
     "/mailgun", "/ss/c", "/list-manage", "/r/?u=", "/tracking", "/ref", "mc_cid",
     "mc_eid"
  >>

\* ------------------------------------------------------------------------
\* app/url_cleaner.py: constants
\* ------------------------------------------------------------------------

TRACKING_PARAMS ==
  {
     "utm_source", "utm_medium", "utm_campaign", "utm_term", "utm_content", "utm_id",
     "utm_source_platform", "utm_creative_format", "utm_marketing_tactic", "fbclid",
     "fb_action_ids", "fb_action_types", "fb_ref", "fb_source", "gclid", "gclsrc",
     "gbraid", "wbraid", "dclid", "msclkid", "mc_cid", "mc_eid", "ml_subscriber",
     "ml_subscriber_hash", "aff", "affiliate", "aff_id", "affiliate_id", "partner",
     "partner_id", "ref", "ref_src", "referrer", "source", "campaign", "igshid", "igsh",
     "si", "share", "shared", "ver", "version", "v", "_ga", "_gl", "_hsenc", "_hsmi",
     "feature", "app", "at_medium", "at_campaign", "at_custom1", "at_custom2", "iesrc",
     "mkt_tok", "trk", "trkCampaign", "sc_campaign", "sc_channel", "newsletter", "email",
     "em", "subscriber", "sub_id", "hash", "track", "tracking", "tid", "cid", "eid"
  }

shortening_domains ==
  {
     "bit.ly", "tinyurl.com", "short.link", "ow.ly", "t.co", "goo.gl", "buff.ly",
     "amzn.to", "youtu.be", "l.facebook.com", "l.messenger.com", "lnkd.in", "is.gd",
     "j.mp", "po.st", "bc.vc", "smarturl.it", "tiny.cc", "cli.re", "go2l.ink", "cutt.ly",
     "rb.gy", "short.io"
  }

\* ------------------------------------------------------------------------
\* Bounds of the model
\* ------------------------------------------------------------------------

\* Most articles of one batch handed to deduplicate_articles (besides the
\* filler articles, see FillerSizes).
MaxBatch == 3

\* Most calls of deduplicate_articles in one process.
MaxCalls == 2

\* ------------------------------------------------------------------------
\* State
\* ------------------------------------------------------------------------

VARIABLES
  processed_articles,  \* main.py:24, the hashes of the articles the model names
  processed_other,     \* main.py:24, how many further hashes the set holds
  calls,               \* calls of deduplicate_articles made so far
  last,                \* the last call of deduplicate_articles: arguments and outcome
  returned_since,      \* hashes returned by calls since the last eviction (history variable)
  flt,                 \* the last call of config.filter_articles: arguments and result
  run,                 \* the run of main() in progress: its stage and its locals
  force_run,           \* settings.force_run
  cu,                  \* the last call of clean_url: argument, result, result of a second pass
  rs,                  \* the last call of clean_and_resolve_url, likewise
  head_net,            \* what the network answered to requests.head, per URL asked
  get_net,             \* what the network answered to requests.get, per URL asked
  cn,                  \* the last call of resolve_canonical_url: argument and outcome
  fu,                  \* the call of fetch_url in progress: attempts, answers, result
  sm,                  \* the last call of create_summary: arguments and result
  sc                   \* the last call of score_sentence: arguments, position bonus, score

dedupVars == << processed_articles, processed_other, calls, last, returned_since >>

filterVars == << flt >>

mainVars == << run, force_run >>

urlVars == << cu, rs, head_net, get_net, cn, fu >>

sumVars == << sm, sc >>

vars == << dedupVars, filterVars, mainVars, urlVars, sumVars >>

\* ------------------------------------------------------------------------
\* app/utils.py
\* ------------------------------------------------------------------------

\* The descriptions of the model's feed entries: one of more than 200
\* characters, holding no keyword of settings.keywords, and a short one.
FiftyChars == "xxxxxxxxxxxxxxxxxxxxxxxxxxxxxxxxxxxxxxxxxxxxxxxxxx"

LongDescription ==
  "The zoo opens its doors on Sunday. "
  \o FiftyChars \o FiftyChars \o FiftyChars \o FiftyChars \o "x"

ShortDescription == "Short title only"

\* hash_item: the first 16 hex digits of the SHA-256 of the content, tabulated
\* for the contents the model's articles have.
hash_item(content) ==
  CASE content = "ab" -> "fb8e20fc2e4c3f24"
    [] content = "b" -> "3e23e8160039594a"
    [] content = "AI chip" \o LongDescription -> "dece84cdaa13ebd2"
    [] content = "AI game Review" \o LongDescription -> "4c5f3825d8ce9dc2"
    [] content = "VR headset" \o LongDescription -> "dd629833ad1d8066"
    [] content = "Zoo" \o LongDescription -> "37a29902831ba872"
    [] content = "ML kit" \o LongDescription -> "99ba61a7b2d454df"
    [] content = "AI weekly" \o "From news@example.com: AI weekly" -> "779fae2ddca18a0f"

\* ------------------------------------------------------------------------
\* app/main.py: deduplicate_articles
\* ------------------------------------------------------------------------

HistoryCeiling == 1000

EvictSlice == 500

\* An article as the fetchers build it: title and description are strings,
\* link is Optional[str].
Article(title, description, link) ==
  [title |-> title, description |-> description, link |-> link]

\* main.py:107-109, the locals of one call; unique_articles holds the
\* positions in the batch of the articles kept, in the order they were kept.
DedupStart ==
  [unique_articles |-> << >>, current_hashes |-> {}, current_urls |-> {},
   raised |-> FALSE]

\* main.py:113
ArticleHash(article) == hash_item(article.title \o article.description)

\* A variant of ArticleUrl that compares links as written (no .lower()).
ArticleUrl_CaseSensitive(article) == article.link[1]

\* main.py:116, for a link that is a string
ArticleUrl(article) == lower(article.link[1])

\* A variant of IsNew without the test against the history.
IsNew_IgnoresHistory(article_hash, article_url, st, processed) ==
  /\ article_hash \notin st.current_hashes
  /\ article_url \notin st.current_urls

\* A variant of IsNew without the test against the hashes of the batch.
IsNew_NoBatchHashes(article_hash, article_url, st, processed) ==
  /\ article_hash \notin processed
  /\ article_url \notin st.current_urls

\* main.py:119-121, the test that keeps an article
IsNew(article_hash, article_url, st, processed) ==
  /\ article_hash \notin processed
  /\ article_hash \notin st.current_hashes
  /\ article_url \notin st.current_urls

\* main.py:112-126, one iteration of the loop on the article at position i.
\* A link that is None makes .lower() raise AttributeError, which nothing in
\* deduplicate_articles catches.
DedupItem(st, i, article, processed) ==
  IF st.raised THEN st
  ELSE IF article.link = None THEN [st EXCEPT !.raised = TRUE]
  ELSE LET article_hash == ArticleHash(article)
           article_url == ArticleUrl(article)
       IN IF IsNew(article_hash, article_url, st, processed)
          THEN [st EXCEPT
                  !.unique_articles = Append(@, i),
                  !.current_hashes = @ \cup {article_hash},
                  !.current_urls = IF article_url # "" THEN @ \cup {article_url} ELSE @]
          ELSE st

\* main.py:111, the loop over the batch from position i
RECURSIVE DedupLoop(_, _, _, _)
DedupLoop(st, i, articles, processed) ==
  IF i > Len(articles) THEN st
  ELSE DedupLoop(DedupItem(st, i, articles[i], processed), i + 1, articles, processed)

\* A variant of MergeHistory that forgets the hashes of the batch.
MergeHistory_Forgets(processed, current_hashes) == processed

\* main.py:129
MergeHistory(processed, current_hashes) == processed \cup current_hashes

\* main.py:130
MustEvict(size) == size > HistoryCeiling

\* main.py:132, set(list(processed_articles)[500:]): the list order of a set
\* of strings is whatever the interpreter's hashing gives, so the EvictSlice
\* entries dropped are any EvictSlice entries. A choice names the model's
\* hashes that are dropped; the remaining dropped entries are other hashes.
EvictChoices(merged, merged_other) ==
  { E \in SUBSET merged :
      /\ Cardinality(E) <= EvictSlice
      /\ EvictSlice - Cardinality(E) <= merged_other }

HistorySize == Cardinality(processed_articles) + processed_other

\* The batches of the deduplicator: articles the model names, in any order and
\* with repetitions, plus `filler` further articles whose contents and
\* non-empty links occur nowhere else (each is kept and adds one hash).
TitleDescs == { <<"a", "b">>, <<"b", "">> }

DedupLinks == { Some(""), Some("U"), Some("u") }

DedupArticles == { Article(td[1], td[2], l) : td \in TitleDescs, l \in DedupLinks }

FillerSizes == { 0, EvictSlice - 1, HistoryCeiling + 1 }

\* main.py:103-134, one call of deduplicate_articles
deduplicate_articles(articles, filler) ==
  /\ calls' = calls + 1
  /\ LET st == DedupLoop(DedupStart, 1, articles, processed_articles)
         merged == MergeHistory(processed_articles, st.current_hashes)
         merged_other == processed_other + filler
         merged_size == Cardinality(merged) + merged_other
         result == [called |-> TRUE, articles |-> articles, filler |-> filler,
                    unique_articles |-> st.unique_articles,
                    raised |-> st.raised,
                    before |-> processed_articles,
                    merged_size |-> merged_size,
                    evicted |-> FALSE,
                    returned_before |-> returned_since]
     IN IF st.raised
        THEN /\ last' = [result EXCEPT !.merged_size = HistorySize]
             /\ UNCHANGED << processed_articles, processed_other, returned_since >>
        ELSE IF MustEvict(merged_size)
        THEN \E E \in EvictChoices(merged, merged_other) :
               /\ processed_articles' = merged \ E
               /\ processed_other' = merged_other - (EvictSlice - Cardinality(E))
               /\ returned_since' = {}
               /\ last' = [result EXCEPT !.evicted = TRUE]
        ELSE /\ processed_articles' = merged
             /\ processed_other' = merged_other
             /\ returned_since' = returned_since \cup st.current_hashes
             /\ last' = result

NoCall ==
  [called |-> FALSE, articles |-> << >>, filler |-> 0, unique_articles |-> << >>,
   raised |-> FALSE, before |-> {}, merged_size |-> 0, evicted |-> FALSE,
   returned_before |-> {}]

DedupCall ==
  /\ calls < MaxCalls
  /\ ~last.called
  /\ \E articles \in SeqsUpTo(DedupArticles, MaxBatch), filler \in FillerSizes :
       deduplicate_articles(articles, filler)
  /\ UNCHANGED << filterVars, mainVars, urlVars, sumVars >>

\* The caller takes the returned list (or the exception): main.py:253.
DedupReturn ==
  /\ last.called
  /\ last' = NoCall
  /\ UNCHANGED << processed_articles, processed_other, calls, returned_since >>
  /\ UNCHANGED << filterVars, mainVars, urlVars, sumVars >>

\* The same call, statement by statement. last is the call in progress: pc
\* is "loop" while the for statement of main.py:111 runs and "done" after
\* main.py:129-132, i is the position of the next article, st the locals.

\* A variant of HistoryInLoop that adds the hashes kept so far to the history
\* in every iteration.
HistoryInLoop_PerItem(processed, current_hashes) == processed \cup current_hashes

\* main.py:111-126: the loop reads processed_articles and does not assign it
HistoryInLoop(processed, current_hashes) == processed

\* main.py:103-109: the call starts
StepStart ==
  /\ calls < MaxCalls
  /\ ~last.called
  /\ calls' = calls + 1
  /\ \E articles \in SeqsUpTo(DedupArticles, MaxBatch), filler \in FillerSizes :
       last' = [called |-> TRUE, pc |-> "loop", i |-> 1, st |-> DedupStart,
                articles |-> articles, filler |-> filler,
                unique_articles |-> << >>, raised |-> FALSE,
                before |-> processed_articles,
                merged_size |-> HistorySize, evicted |-> FALSE,
                returned_before |-> returned_since]
  /\ UNCHANGED << processed_articles, processed_other, returned_since >>
  /\ UNCHANGED << filterVars, mainVars, urlVars, sumVars >>

\* main.py:112-126: one iteration
StepItem ==
  /\ last.called
  /\ last.pc = "loop"
  /\ last.i <= Len(last.articles)
  /\ LET st == DedupItem(last.st, last.i, last.articles[last.i], processed_articles)
     IN /\ last' = [last EXCEPT !.st = st, !.i = @ + 1,
                                !.unique_articles = st.unique_articles]
        /\ processed_articles' = HistoryInLoop(processed_articles, st.current_hashes)
  /\ UNCHANGED << processed_other, calls, returned_since >>
  /\ UNCHANGED << filterVars, mainVars, urlVars, sumVars >>

\* main.py:128-132: the update of the history, and the eviction, after the
\* loop
StepMerge ==
  /\ last.called
  /\ last.pc = "loop"
  /\ last.i > Len(last.articles)
  /\ LET merged == MergeHistory(processed_articles, last.st.current_hashes)
         merged_other == processed_other + last.filler
         merged_size == Cardinality(merged) + merged_other
         result == [last EXCEPT !.pc = "done", !.merged_size = merged_size]
     IN IF MustEvict(merged_size)
        THEN \E E \in EvictChoices(merged, merged_other) :
               /\ processed_articles' = merged \ E
               /\ processed_other' = merged_other - (EvictSlice - Cardinality(E))
               /\ returned_since' = {}
               /\ last' = [result EXCEPT !.evicted = TRUE]
        ELSE /\ processed_articles' = merged
             /\ processed_other' = merged_other
             /\ returned_since' = returned_since \cup last.st.current_hashes
             /\ last' = result
  /\ UNCHANGED calls
  /\ UNCHANGED << filterVars, mainVars, urlVars, sumVars >>

\* main.py:134
StepReturn ==
  /\ last.called
  /\ last.pc = "done"
  /\ last' = NoCall
  /\ UNCHANGED << processed_articles, processed_other, calls, returned_since >>
  /\ UNCHANGED << filterVars, mainVars, urlVars, sumVars >>

\* ------------------------------------------------------------------------
\* app/config.py: filter_articles
\* ------------------------------------------------------------------------

\* settings.keywords in lower case (main.py:95, summarize.py:85)
keywords_lower == [i \in DOMAIN keywords |-> lower(keywords[i])]

\* The keyword lists in lower case (config.py:233, 246).
blocklist_lower == [i \in DOMAIN blocklist_keywords |-> lower(blocklist_keywords[i])]

allowlist_lower == [i \in DOMAIN allowlist_keywords |-> lower(allowlist_keywords[i])]

\* config.py:218, article.get('link', '') or ''
LinkOrEmpty(link) == IF link = None THEN "" ELSE link[1]

\* config.py:221-225, pattern.search(link) for the compiled patterns of
\* data/blocklist.yml; the model's patterns are literal texts, matched as
\* re.IGNORECASE matches them.
UrlBlocked(link, patterns) ==
  \E i \in DOMAIN patterns : Contains(lower(patterns[i]), lower(link))

\* A variant of HasBlockedContent that looks at the title only.
HasBlockedContent_TitleOnly(title, description) ==
  \E i \in DOMAIN blocklist_lower : Contains(blocklist_lower[i], title)

\* config.py:231-235, on the lower-cased title and description
HasBlockedContent(title, description) ==
  \E i \in DOMAIN blocklist_lower :
    Contains(blocklist_lower[i], title) \/ Contains(blocklist_lower[i], description)

\* config.py:245-249, the entries of the lower-cased allowlist found in the
\* title
TitleScore(title, allowlist) ==
  Cardinality({ i \in DOMAIN allowlist : Contains(allowlist[i], title) })

\* A variant of DescScore that counts every entry found in the description.
DescScore_AlsoInTitle(title, description, allowlist) ==
  Cardinality({ i \in DOMAIN allowlist : Contains(allowlist[i], description) })

\* config.py:250-252, the entries found in the description and not in the
\* title
DescScore(title, description, allowlist) ==
  Cardinality({ i \in DOMAIN allowlist :
                  /\ ~Contains(allowlist[i], title)
                  /\ Contains(allowlist[i], description) })

\* config.py:215-258, the loop body: whether the article is accepted, and its
\* relevance_score. allowlist is settings.allowlist_keywords in lower case.
Classify(article, patterns, allowlist) ==
  LET title == lower(article.title)
      description == lower(article.description)
      link == LinkOrEmpty(article.link)
      title_score == TitleScore(title, allowlist)
      desc_score == DescScore(title, description, allowlist)
  IN IF UrlBlocked(link, patterns) THEN [accepted |-> FALSE, relevance_score |-> 0]
     ELSE IF HasBlockedContent(title, description)
     THEN [accepted |-> FALSE, relevance_score |-> 0]
     ELSE [accepted |-> title_score + desc_score > 0,
           relevance_score |-> (title_score * 2) + desc_score]

\* The batches of the filter.
FilterTexts ==
  { <<"AI chip", "AI VR sensor">>, <<"AI game Review", "VR sensor">>, <<"Zoo", "AI Trailer">>,
    <<"Zoo", "VR sensor">>, <<"Zoo", "">> }

FilterLinks == { None, Some("https://vr-game.example/a") }

FilterArticles == { Article(td[1], td[2], l) : td \in FilterTexts, l \in FilterLinks }

\* What load_blocklist may return: no pattern, or one.
PatternLists == { << >>, << "VR-Game" >> }

\* The settings of a call: the patterns of load_blocklist and
\* settings.allowlist_keywords in lower case, which is the list of config.py:81
\* or, set from the environment, an empty one.
FilterSettings ==
  { [patterns |-> p, allowlist |-> allowlist_lower] : p \in PatternLists }
  \cup { [patterns |-> << >>, allowlist |-> << >>] }

\* Classify, evaluated once for every article and every settings of the model.
Classified ==
  [a \in FilterArticles, c \in FilterSettings |-> Classify(a, c.patterns, c.allowlist)]

\* config.py:215-258, the loop from position i: the accepted articles in the
\* order of the batch, each as its position and its relevance_score.
RECURSIVE FilterLoop(_, _, _)
FilterLoop(i, articles, config) ==
  IF i > Len(articles) THEN << >>
  ELSE LET c == Classified[articles[i], config]
       IN (IF c.accepted
           THEN << [pos |-> i, relevance_score |-> c.relevance_score] >>
           ELSE << >>) \o FilterLoop(i + 1, articles, config)

\* A variant of InsertByScore that puts x in front of the elements with its
\* key.
InsertByScore_BeforeEqual(sorted, x) ==
  LET before == { k \in DOMAIN sorted : sorted[k].relevance_score > x.relevance_score }
      n == Cardinality(before)
  IN SubSeq(sorted, 1, n) \o << x >> \o SubSeq(sorted, n + 1, Len(sorted))

\* list.sort(key=relevance_score, reverse=True) is stable: x goes behind every
\* element whose key is not smaller.
InsertByScore(sorted, x) ==
  LET before == { k \in DOMAIN sorted : sorted[k].relevance_score >= x.relevance_score }
      n == Cardinality(before)
  IN SubSeq(sorted, 1, n) \o << x >> \o SubSeq(sorted, n + 1, Len(sorted))

\* config.py:261
RECURSIVE SortByScore(_, _)
SortByScore(sorted, rest) ==
  IF rest = << >> THEN sorted
  ELSE SortByScore(InsertByScore(sorted, Head(rest)), Tail(rest))

\* config.py:196-263
filter_articles_config(articles, config) ==
  SortByScore(<< >>, FilterLoop(1, articles, config))

NoFilterCall ==
  [called |-> FALSE, articles |-> << >>, patterns |-> << >>, allowlist |-> << >>,
   result |-> << >>]

\* One call of config.filter_articles(articles, settings).
FilterCall ==
  /\ ~flt.called
  /\ \E articles \in SeqsUpTo(FilterArticles, MaxBatch), config \in FilterSettings :
       flt' = [called |-> TRUE, articles |-> articles, patterns |-> config.patterns,
               allowlist |-> config.allowlist,
               result |-> filter_articles_config(articles, config)]
  /\ UNCHANGED << dedupVars, mainVars, urlVars, sumVars >>

\* The caller takes the list.
FilterReturn ==
  /\ flt.called
  /\ flt' = NoFilterCall
  /\ UNCHANGED << dedupVars, mainVars, urlVars, sumVars >>

\* ------------------------------------------------------------------------
\* app/url_cleaner.py
\* ------------------------------------------------------------------------

\* A URL as urlparse splits it. The query is the sequence of its name=value
\* pairs as written (percent-encoded); params and fragment, which clean_url
\* carries over untouched, are left out.
Url(scheme, netloc, path, query) ==
  [scheme |-> scheme, netloc |-> netloc, path |-> path, query |-> query]

\* urllib's urlsplit raises ValueError("Invalid IPv6 URL") for a netloc with
\* one of the brackets only.
Unparsable(url) == Contains("[", url.netloc) # Contains("]", url.netloc)

\* The %XX escapes of the model's strings.
PercentDecode(hex) ==
  CASE hex = "20" -> " "
    [] hex = "25" -> "%"
    [] hex = "26" -> "&"
    [] hex = "2B" -> "+"
    [] hex = "3D" -> "="
    [] hex = "5F" -> "_"
    [] OTHER -> "%" \o hex

\* parse_qs on one name or value: '+' becomes a space, then unquote().
RECURSIVE UnquoteFrom(_, _)
UnquoteFrom(s, i) ==
  IF i > Len(s) THEN ""
  ELSE IF SubSeq(s, i, i) = "+" THEN " " \o UnquoteFrom(s, i + 1)
  ELSE IF SubSeq(s, i, i) = "%" /\ i + 2 <= Len(s)
  THEN PercentDecode(SubSeq(s, i + 1, i + 2)) \o UnquoteFrom(s, i + 3)
  ELSE SubSeq(s, i, i) \o UnquoteFrom(s, i + 1)

Unquote(s) == UnquoteFrom(s, 1)

\* quote_plus on one character: letters, digits and _.-~ stay.
QuoteChar(c) ==
  CASE c = " " -> "+"
    [] c = "%" -> "%25"
    [] c = "&" -> "%26"
    [] c = "+" -> "%2B"
    [] c = "=" -> "%3D"
    [] OTHER -> c

RECURSIVE QuoteFrom(_, _)
QuoteFrom(s, i) ==
  IF i > Len(s) THEN "" ELSE QuoteChar(SubSeq(s, i, i)) \o QuoteFrom(s, i + 1)

\* urlencode's quote_via
QuotePlus(s) == QuoteFrom(s, 1)

\* url_cleaner.py:78, parse_qs(query, keep_blank_values=True): a dict from
\* each decoded name to the list of its decoded values; a dict keeps its keys
\* in the order they were first inserted.
RECURSIVE ParseQs(_, _)
ParseQs(params, pairs) ==
  IF pairs = << >> THEN params
  ELSE LET name == Unquote(Head(pairs)[1])
           value == Unquote(Head(pairs)[2])
           at == { k \in DOMAIN params : params[k].key = name }
       IN ParseQs(
            IF at = {}
            THEN Append(params, [key |-> name, values |-> << value >>])
            ELSE [k \in DOMAIN params |->
                    IF k \in at
                    THEN [params[k] EXCEPT !.values = Append(@, value)]
                    ELSE params[k]],
            Tail(pairs))

\* url_cleaner.py:81-84
RemoveTracking(params) ==
  SelectSeq(params, LAMBDA kv : lower(kv.key) \notin TRACKING_PARAMS)

\* url_cleaner.py:87, urlencode(cleaned_params, doseq=True) as name=value pairs
RECURSIVE UrlEncode(_)
UrlEncode(params) ==
  IF params = << >> THEN << >>
  ELSE [i \in DOMAIN Head(params).values |->
          << QuotePlus(Head(params).key), QuotePlus(Head(params).values[i]) >>]
       \o UrlEncode(Tail(params))

\* url_cleaner.py:74-93; urlparse lower-cases the scheme.
clean_url(url) ==
  IF Unparsable(url) THEN url
  ELSE [url EXCEPT !.scheme = lower(url.scheme),
                   !.query = UrlEncode(RemoveTracking(ParseQs(<< >>, url.query)))]

\* url_cleaner.py:48-59
is_blocked_domain(url) ==
  /\ ~Unparsable(url)
  /\ \E i \in DOMAIN blocked_domains : Contains(blocked_domains[i], lower(url.netloc))

\* url_cleaner.py:61-72
has_banned_path_keywords(url) ==
  /\ ~Unparsable(url)
  /\ \E i \in DOMAIN banned_path_keywords :
       Contains(banned_path_keywords[i], lower(url.path))

\* url_cleaner.py:208-221
is_shortened_url(url) ==
  /\ ~Unparsable(url)
  /\ \E shortener \in shortening_domains : Contains(shortener, lower(url.netloc))

\* What requests.head(url, allow_redirects=True) gives: an exception, or a
\* response with the URL reached and its content-type header.
HeadFailed == [ok |-> FALSE]

HeadResponse(url, content_type) == [ok |-> TRUE, url |-> url, content_type |-> content_type]

\* What requests.get(final_url, stream=True) gives: an exception, or a
\* response with its content-type header and whether raise_for_status passes.
GetFailed == [ok |-> FALSE]

GetResponse(content_type, status_ok) ==
  [ok |-> TRUE, content_type |-> content_type, status_ok |-> status_ok]

\* url_cleaner.py:112
HeadIsHtml(h) == h.ok /\ Contains("text/html", lower(h.content_type))

\* What a call gives its caller: the value of a return statement, or an
\* exception that leaves the function.
Returns(value) == [raised |-> FALSE, value |-> value]

Raises == [raised |-> TRUE, value |-> None]

\* A variant of ExceptReturnNone without the except clause: the exception
\* goes on to the caller.
ExceptReturnNone_Propagates(outcome) == outcome

\* url_cleaner.py:134-136, 204-206, 257-259: except Exception: return None
ExceptReturnNone(outcome) == IF outcome.raised THEN Returns(None) ELSE outcome

\* url_cleaner.py:97-132, the try block, given the answers of the network;
\* g is consulted only when the HEAD response is no HTML. requests raises
\* when a request fails, raise_for_status when the status is an error.
FollowBody(h, g) ==
  IF ~h.ok THEN Raises
  ELSE IF HeadIsHtml(h) THEN Returns(Some(h.url))
  ELSE IF ~g.ok THEN Raises
  ELSE IF ~Contains("text/html", lower(g.content_type)) THEN Returns(None)
  ELSE IF ~g.status_ok THEN Raises
  ELSE Returns(Some(h.url))

\* url_cleaner.py:95-136 as its caller sees it
FollowOutcome(h, g) == ExceptReturnNone(FollowBody(h, g))

\* url_cleaner.py:95-136: the value returned
follow_redirects_and_validate(h, g) == FollowOutcome(h, g).value

\* A variant of ResolvedResult that returns the resolved URL as the network
\* gave it.
ResolvedResult_NotCleaned(final_url) == Some(final_url)

\* url_cleaner.py:251
ResolvedResult(final_url) == Some(clean_url(final_url))

\* A variant of FinalUrlBlocked that lets every resolved URL pass.
FinalUrlBlocked_NotChecked(final_url) == FALSE

\* url_cleaner.py:247: the block check on the URL the redirects ended at
FinalUrlBlocked(final_url) ==
  is_blocked_domain(final_url) \/ has_banned_path_keywords(final_url)

\* url_cleaner.py:225-255, the try block, given the answers of the network.
\* is_blocked_domain, has_banned_path_keywords, is_shortened_url and
\* clean_url catch their own exceptions; one that leaves
\* follow_redirects_and_validate leaves the block.
ResolveBody(url, h, g) ==
  IF is_blocked_domain(url) THEN Returns(None)
  ELSE IF has_banned_path_keywords(url) THEN Returns(None)
  ELSE LET cleaned_url == clean_url(url)
       IN IF is_shortened_url(cleaned_url)
          THEN LET followed == FollowOutcome(h, g)
                   final_url == followed.value
               IN IF followed.raised THEN Raises
                  ELSE IF final_url = None THEN Returns(None)
                  ELSE IF FinalUrlBlocked(final_url[1]) THEN Returns(None)
                  ELSE Returns(ResolvedResult(final_url[1]))
          ELSE Returns(Some(cleaned_url))

\* url_cleaner.py:223-259 as its caller sees it
ResolveOutcome(url, h, g) == ExceptReturnNone(ResolveBody(url, h, g))

\* url_cleaner.py:223-259: the value returned
clean_and_resolve_url(url, h, g) == ResolveOutcome(url, h, g).value

\* What the page at a URL gives to requests.get(final_url) of
\* url_cleaner.py:147-154: an exception, a response whose status is an error,
\* or a document with the href of its rel=canonical link and the content of
\* its og:url meta tag (None when the document has none, or an empty one).
PageFailed == [ok |-> FALSE]

PageStatusError == [ok |-> TRUE, status_ok |-> FALSE]

Page(canonical, og_url) ==
  [ok |-> TRUE, status_ok |-> TRUE, canonical |-> canonical, og_url |-> og_url]

\* A reference as a document writes it: "absolute" (it starts with http),
\* "protocol-relative" (//netloc/path), "root-relative" (/path) or
\* "relative" (a name); url holds the parts the reference spells out.
Href(kind, url) == [kind |-> kind, url |-> url]

\* path.rsplit('/', 1)[0]: the path up to its last slash
RECURSIVE RSplitHead(_, _)
RSplitHead(path, i) ==
  IF i = 0 THEN path
  ELSE IF SubSeq(path, i, i) = "/" THEN SubSeq(path, 1, i - 1)
  ELSE RSplitHead(path, i - 1)

\* url_cleaner.py:164-175 and 184-195: the reference made absolute against
\* the URL of the page
MakeAbsolute(href, final_url) ==
  CASE href.kind = "protocol-relative" ->
         Url("https", href.url.netloc, href.url.path, href.url.query)
    [] href.kind = "root-relative" ->
         Url(final_url.scheme, final_url.netloc, href.url.path, href.url.query)
    [] href.kind = "relative" ->
         Url(final_url.scheme, final_url.netloc,
             (IF final_url.path # "" THEN RSplitHead(final_url.path, Len(final_url.path))
              ELSE "") \o "/" \o href.url.path,
             href.url.query)
    [] OTHER -> href.url

\* url_cleaner.py:160-201: the URL returned for a fetched document
CanonicalOf(page, final_url) ==
  IF page.canonical # None
  THEN clean_url(MakeAbsolute(page.canonical[1], final_url))
  ELSE IF page.og_url # None
  THEN clean_url(MakeAbsolute(page.og_url[1], final_url))
  ELSE clean_url(final_url)

\* url_cleaner.py:140-202, the try block, given the answers of the network
CanonicalBody(h, g, page) ==
  LET followed == FollowOutcome(h, g)
      final_url == followed.value
  IN IF followed.raised THEN Raises
     ELSE IF final_url = None THEN Returns(None)
     ELSE IF ~page.ok THEN Raises
     ELSE IF ~page.status_ok THEN Raises
     ELSE Returns(Some(CanonicalOf(page, final_url[1])))

\* url_cleaner.py:138-206 as its caller sees it
CanonicalOutcome(h, g, page) == ExceptReturnNone(CanonicalBody(h, g, page))

\* url_cleaner.py:138-206: the value returned
resolve_canonical_url(h, g, page) == CanonicalOutcome(h, g, page).value

\* The URLs handed to clean_url.
MaxParams == 3

Schemes == { "https", "HTTPS" }

CleanHosts == { "example.com", "[::1" }

ParamNames == { "id", "q", "UTM_Source", "trkCampaign" }

ParamValues == { "1", "a%20b" }

Queries(n) == SeqsUpTo(ParamNames \X ParamValues, n)

CleanUrls ==
  { Url(s, h, "/a", q) : s \in Schemes, h \in CleanHosts, q \in Queries(MaxParams) }

NoClean == [called |-> FALSE, again |-> FALSE]

\* One call of clean_url(url).
CleanCall ==
  /\ ~cu.called
  /\ ~rs.called
  /\ ~cn.called
  /\ \E url \in CleanUrls :
       cu' = [called |-> TRUE, again |-> FALSE, url |-> url, result |-> clean_url(url)]
  /\ UNCHANGED << dedupVars, filterVars, mainVars, sumVars, rs, head_net, get_net, cn, fu >>

\* clean_url called on what it returned.
CleanAgain ==
  /\ cu.called
  /\ ~cu.again
  /\ cu' = [called |-> TRUE, again |-> TRUE, url |-> cu.url, result |-> cu.result,
            second |-> clean_url(cu.result)]
  /\ UNCHANGED << dedupVars, filterVars, mainVars, sumVars, rs, head_net, get_net, cn, fu >>

CleanReturn ==
  /\ cu.called
  /\ cu' = NoClean
  /\ UNCHANGED << dedupVars, filterVars, mainVars, sumVars, rs, head_net, get_net, cn, fu >>

\* The URLs handed to clean_and_resolve_url, and the URLs redirects lead to.
ResolveHosts == { "example.com", "youtu.be", "bit.ly" }

ResolvePaths == { "/a", "/login" }

ResolveQueries ==
  { << >>, << <<"id", "1">> >>, << <<"UTM_Source", "1">> >>, << <<"mc_cid", "1">> >> }

ResolveUrls ==
  { Url("https", h, "/a", q) : h \in ResolveHosts, q \in ResolveQueries }
  \cup { Url("https", h, p, << >>) : h \in ResolveHosts, p \in ResolvePaths }

ContentTypes == { "text/html; charset=UTF-8", "text/plain", "application/pdf" }

HeadAnswers ==
  {HeadFailed} \cup { HeadResponse(u, c) : u \in ResolveUrls, c \in ContentTypes }

GetAnswers ==
  {GetFailed} \cup { GetResponse(c, ok) : c \in ContentTypes, ok \in BOOLEAN }

\* The network does not change: a URL asked before gets the answer it got,
\* and the URL a chain of redirects ends at answers for itself, with the
\* same headers.
HeadAnswersFor(url) ==
  IF url \in DOMAIN head_net THEN { head_net[url] }
  ELSE { h \in HeadAnswers :
           h.ok /\ h.url \in DOMAIN head_net
             => head_net[h.url] = HeadResponse(h.url, h.content_type) }

GetAnswersFor(url) == IF url \in DOMAIN get_net THEN { get_net[url] } ELSE GetAnswers

Recorded(net, url, answer) ==
  [u \in DOMAIN net \cup {url} |-> IF u = url THEN answer ELSE net[u]]

RecordedHead(url, h) ==
  IF h.ok
  THEN Recorded(Recorded(head_net, h.url, HeadResponse(h.url, h.content_type)), url, h)
  ELSE Recorded(head_net, url, h)

\* The references the documents of the model declare.
Hrefs ==
  { Href("absolute", Url("https", "example.com", "/b", << <<"UTM_Source", "1">> >>)),
    Href("protocol-relative", Url("", "example.com", "/b", << >>)),
    Href("root-relative", Url("", "", "/b", << >>)),
    Href("relative", Url("", "", "b", << >>)) }

\* The documents a URL can serve: og:url, when there is one, is written in
\* full.
Pages ==
  { Page(c, o) : c \in {None} \cup { Some(href) : href \in Hrefs },
                 o \in {None} \cup { Some(href) : href \in { r \in Hrefs : r.kind = "absolute" } } }

PageAnswers == { PageFailed, PageStatusError } \cup Pages

NoResolve == [called |-> FALSE, again |-> FALSE]

\* What is kept of a call: of the first, its argument, its outcome and the
\* document served at the URL it returned (which it never requests); of the
\* second, its outcome next to those.
ResolveRecord(url, again, outcome, page) ==
  IF again
  THEN [called |-> TRUE, again |-> TRUE, url |-> rs.url, result |-> rs.result,
        raised |-> rs.raised \/ outcome.raised, page |-> rs.page,
        second |-> outcome.value]
  ELSE [called |-> TRUE, again |-> FALSE, url |-> url, result |-> outcome.value,
        raised |-> outcome.raised,
        page |-> IF outcome.value = None THEN PageFailed ELSE page]

\* The requests one call of clean_and_resolve_url(url) makes and the answers
\* it gets: head_net' and get_net' hold them, and the outcome is kept.
ResolveWithNetwork(url, again, page) ==
  IF is_blocked_domain(url) \/ has_banned_path_keywords(url)
       \/ ~is_shortened_url(clean_url(url))
  THEN /\ rs' = ResolveRecord(url, again,
                              ResolveOutcome(url, HeadFailed, GetFailed), page)
       /\ UNCHANGED << head_net, get_net >>
  ELSE \E h \in HeadAnswersFor(clean_url(url)) :
         /\ head_net' = RecordedHead(clean_url(url), h)
         /\ IF h.ok /\ ~HeadIsHtml(h)
            THEN \E g \in GetAnswersFor(h.url) :
                   /\ get_net' = Recorded(get_net, h.url, g)
                   /\ rs' = ResolveRecord(url, again, ResolveOutcome(url, h, g), page)
            ELSE /\ get_net' = get_net
                 /\ rs' = ResolveRecord(url, again,
                                        ResolveOutcome(url, h, GetFailed), page)

\* One call of clean_and_resolve_url(url).
ResolveCall ==
  /\ ~rs.called
  /\ ~cu.called
  /\ ~cn.called
  /\ \E url \in ResolveUrls, page \in Pages : ResolveWithNetwork(url, FALSE, page)
  /\ UNCHANGED << dedupVars, filterVars, mainVars, sumVars, cu, cn, fu >>

\* clean_and_resolve_url called on the URL it returned.
ResolveAgain ==
  /\ rs.called
  /\ ~rs.again
  /\ rs.result # None
  /\ ResolveWithNetwork(rs.result[1], TRUE, rs.page)
  /\ UNCHANGED << dedupVars, filterVars, mainVars, sumVars, cu, cn, fu >>

\* The caller takes the result; the network's answers are forgotten with it.
ResolveReturn ==
  /\ rs.called
  /\ rs' = NoResolve
  /\ head_net' = << >>
  /\ get_net' = << >>
  /\ UNCHANGED << dedupVars, filterVars, mainVars, sumVars, cu, cn, fu >>

NoCanonical == [called |-> FALSE]

\* The URLs handed to resolve_canonical_url.
CanonicalUrls ==
  { Url("https", "bit.ly", "/a", << >>), Url("https", "example.com", "/x/a", << >>) }

\* One call of resolve_canonical_url(url): the answers of the network to its
\* requests, and its outcome. The validating GET is made only when the HEAD
\* response is no HTML, the page is fetched only for a validated URL.
CanonicalCall ==
  /\ ~cn.called
  /\ ~rs.called
  /\ ~cu.called
  /\ \E url \in CanonicalUrls, h \in HeadAnswers :
       \E g \in IF h.ok /\ ~HeadIsHtml(h) THEN GetAnswers ELSE {GetFailed} :
         \E page \in IF follow_redirects_and_validate(h, g) # None
                     THEN PageAnswers ELSE {PageFailed} :
           cn' = [called |-> TRUE, url |-> url, head |-> h, get |-> g, page |-> page,
                  followed |-> FollowOutcome(h, g),
                  outcome |-> CanonicalOutcome(h, g, page)]
  /\ UNCHANGED << dedupVars, filterVars, mainVars, sumVars, cu, rs, head_net, get_net, fu >>

CanonicalReturn ==
  /\ cn.called
  /\ cn' = NoCanonical
  /\ UNCHANGED << dedupVars, filterVars, mainVars, sumVars, cu, rs, head_net, get_net, fu >>

\* ------------------------------------------------------------------------
\* app/utils.py: fetch_url
\* ------------------------------------------------------------------------

\* utils.py:13, stop_after_attempt(3)
MaxAttempts == 3

\* What session.get gives: an exception of aiohttp, or a response with its
\* status and text.
FetchFailed(exception) == [ok |-> FALSE, exception |-> exception]

FetchResponse(status, text) == [ok |-> TRUE, status |-> status, text |-> text]

\* utils.py:26-42, the try block: the text of a response with status 200; a
\* failed request raises, and another status raises ClientResponseError.
FetchBody(answer) ==
  IF ~answer.ok THEN Raises
  ELSE IF answer.status = 200 THEN Returns(Some(answer.text))
  ELSE Raises

\* utils.py:16-46, the function the decorator wraps: what one attempt gives
\* (except Exception: return None, utils.py:44-46).
FetchAttemptOutcome(answer) == ExceptReturnNone(FetchBody(answer))

\* utils.py:12-15, tenacity's retry with its default retry_if_exception_type():
\* after an attempt that raised, another one while fewer than
\* stop_after_attempt have been made, then RetryError; after an attempt that
\* returned, its value.
RetryDecision(outcome, attempt_number) ==
  IF ~outcome.raised THEN "return"
  ELSE IF attempt_number >= MaxAttempts THEN "raise"
  ELSE "retry"

\* The feeds fetched and the answers of the network.
FeedUrls ==
  { "https://example.com/feed.xml", "https://example.org/rss",
    "https://news.example.net/atom.xml", "https://blog.example.com/index.xml" }

FetchAnswers ==
  { FetchFailed(e) : e \in { "TimeoutError", "ClientConnectorError", "ServerDisconnectedError" } }
  \cup { FetchResponse(200, t) : t \in { "", "<rss></rss>" } }
  \cup { FetchResponse(c, "") : c \in { 404, 429, 500, 503 } }

\* Calls of fetch_url in one run (one per source, main.py:227-235).
MaxFetchCalls == 3

NoFetch == [pc |-> "idle", calls |-> 0]

\* main.py:39: fetch_url(feed_url) is called
FetchCall ==
  /\ fu.pc \in { "idle", "done" }
  /\ fu.calls < MaxFetchCalls
  /\ \E url \in FeedUrls :
       fu' = [pc |-> "attempt", calls |-> fu.calls + 1, url |-> url, attempts |-> 0,
              answers |-> << >>, result |-> None, raised |-> FALSE]
  /\ UNCHANGED << dedupVars, filterVars, mainVars, sumVars, cu, rs, head_net, get_net, cn >>

\* One attempt: the request, what the function makes of the answer, and
\* what the decorator does next.
FetchAttempt ==
  /\ fu.pc = "attempt"
  /\ \E answer \in FetchAnswers :
       LET outcome == FetchAttemptOutcome(answer)
           decision == RetryDecision(outcome, fu.attempts + 1)
       IN fu' = [fu EXCEPT !.attempts = @ + 1,
                           !.answers = Append(@, answer),
                           !.result = outcome.value,
                           !.raised = (decision = "raise"),
                           !.pc = IF decision = "retry" THEN "attempt" ELSE "done"]
  /\ UNCHANGED << dedupVars, filterVars, mainVars, sumVars, cu, rs, head_net, get_net, cn >>

\* The run ends.
FetchEnd ==
  /\ fu.pc = "done"
  /\ fu' = NoFetch
  /\ UNCHANGED << dedupVars, filterVars, mainVars, sumVars, cu, rs, head_net, get_net, cn >>

\* ------------------------------------------------------------------------
\* app/summarize.py
\* ------------------------------------------------------------------------

\* A text is given by its fragments, the pieces re.split cuts it into at the
\* sentence endings ([.!?]+ followed by white space), and a fragment by its
\* words; the text itself has ". " between two fragments and one space
\* between two words. Only the last word of a text ends in punctuation.
RECURSIVE JoinWith(_, _)
JoinWith(strings, sep) ==
  IF strings = << >> THEN ""
  ELSE IF Len(strings) = 1 THEN strings[1]
  ELSE strings[1] \o sep \o JoinWith(Tail(strings), sep)

\* ' '.join(words): the sentence or fragment with these words
Sentence(words) == JoinWith(words, " ")

RawText(fragments) ==
  JoinWith([i \in DOMAIN fragments |-> Sentence(fragments[i])], ". ")

\* summarize.py:35, the estimate used when tiktoken is not installed
count_tokens(text) == Len(text) \div 4

MinSentenceChars == 20

MinSentenceWords == 3

\* summarize.py:61
IsSentence(words) ==
  Len(Sentence(words)) > MinSentenceChars /\ Len(words) > MinSentenceWords

\* summarize.py:38-64: the fragments kept, each with its words
extract_sentences(fragments) == SelectSeq(fragments, IsSentence)

RECURSIVE CountChar(_, _, _)
CountChar(s, c, i) ==
  IF i > Len(s) THEN 0
  ELSE (IF SubSeq(s, i, i) = c THEN 1 ELSE 0) + CountChar(s, c, i + 1)

Min(a, b) == IF a <= b THEN a ELSE b

Max(a, b) == IF a >= b THEN a ELSE b

\* summarize.py:106-107
quality_phrases ==
  << "according to", "researchers found", "study shows", "announced", "revealed" >>

\* summarize.py:83-88, in tenths
KeywordScore(sentence_lower) ==
  Min(20 * Cardinality({ k \in DOMAIN keywords_lower :
                           Contains(keywords_lower[k], sentence_lower) }),
      50)

\* summarize.py:91-96, in tenths
PositionScore(position, total_sentences) ==
  IF position = 0 THEN 15
  ELSE IF position = total_sentences - 1 /\ total_sentences > 1 THEN 5
  ELSE IF position < 3 THEN 10
  ELSE 0

\* summarize.py:99-103, in tenths
LengthScore(word_count) ==
  IF 10 <= word_count /\ word_count <= 25 THEN 10
  ELSE IF 5 <= word_count /\ word_count <= 35 THEN 5
  ELSE 0

\* summarize.py:106-108, in tenths
QualityScore(sentence_lower) ==
  IF \E k \in DOMAIN quality_phrases : Contains(quality_phrases[k], sentence_lower)
  THEN 10 ELSE 0

\* summarize.py:111-120, in tenths
Penalties(sentence, word_count) ==
  (IF CountChar(sentence, "?", 1) > 0 THEN 5 ELSE 0)
  + (IF CountChar(sentence, "\"", 1) > 2 THEN 3 ELSE 0)
  + (IF word_count < 5 THEN 10 ELSE IF word_count > 40 THEN 5 ELSE 0)

\* summarize.py:67-122: the score of a sentence in tenths (0.5 is 5);
\* position is 0-based.
score_sentence(words, position, total_sentences) ==
  Max(KeywordScore(lower(Sentence(words)))
        + PositionScore(position, total_sentences)
        + LengthScore(Len(words))
        + QualityScore(lower(Sentence(words)))
        - Penalties(Sentence(words), Len(words)),
      0)

EllipsisReserve == 3

\* summarize.py:155-163, 196-204, 214-222: the words are added one by one
\* while the text stays within max_tokens - 3.
RECURSIVE TruncateWords(_, _, _)
TruncateWords(words, truncated, max_tokens) ==
  IF words = << >> THEN truncated
  ELSE LET test_text == IF truncated = "" THEN Head(words)
                        ELSE truncated \o " " \o Head(words)
       IN IF count_tokens(test_text) <= max_tokens - EllipsisReserve
          THEN TruncateWords(Tail(words), test_text, max_tokens)
          ELSE truncated

Truncated(words, max_tokens) == TruncateWords(words, "", max_tokens) \o "..."

RawCut == 200

\* summarize.py:146, 224: text[:200] + "..."
RawPrefix(text) == SubSeq(text, 1, Min(Len(text), RawCut)) \o "..."

\* summarize.py:167-169
Scored(sentences) ==
  [i \in DOMAIN sentences |->
     [words |-> sentences[i],
      score |-> score_sentence(sentences[i], i - 1, Len(sentences)),
      pos |-> i - 1]]

\* list.sort(key, reverse=True) is stable: of two entries with the same
\* score the earlier stays first.
InsertScored(sorted, entry) ==
  LET before == { k \in DOMAIN sorted : sorted[k].score >= entry.score }
      n == Cardinality(before)
  IN SubSeq(sorted, 1, n) \o << entry >> \o SubSeq(sorted, n + 1, Len(sorted))

\* summarize.py:172
RECURSIVE SortScored(_, _)
SortScored(sorted, rest) ==
  IF rest = << >> THEN sorted
  ELSE SortScored(InsertScored(sorted, Head(rest)), Tail(rest))

\* A variant of SelectLoop that passes over an entry that does not fit and
\* goes on with the next.
RECURSIVE SelectLoop_SkipsTooLong(_, _, _, _, _)
SelectLoop_SkipsTooLong(ranking, selected, current_tokens, max_tokens, max_sentences) ==
  IF ranking = << >> THEN selected
  ELSE LET sentence_tokens == count_tokens(Sentence(Head(ranking).words))
       IN IF Len(selected) >= max_sentences
             \/ current_tokens + sentence_tokens > max_tokens
          THEN SelectLoop_SkipsTooLong(Tail(ranking), selected, current_tokens,
                                       max_tokens, max_sentences)
          ELSE SelectLoop_SkipsTooLong(Tail(ranking), Append(selected, Head(ranking)),
                                       current_tokens + sentence_tokens, max_tokens,
                                       max_sentences)

\* summarize.py:178-187: the entries selected, in score order
RECURSIVE SelectLoop(_, _, _, _, _)
SelectLoop(ranking, selected, current_tokens, max_tokens, max_sentences) ==
  IF ranking = << >> THEN selected
  ELSE LET sentence_tokens == count_tokens(Sentence(Head(ranking).words))
       IN IF Len(selected) >= max_sentences
             \/ current_tokens + sentence_tokens > max_tokens
          THEN selected
          ELSE SelectLoop(Tail(ranking), Append(selected, Head(ranking)),
                          current_tokens + sentence_tokens, max_tokens, max_sentences)

\* A variant of InsertByPos that leaves the entries in the order selected.
InsertByPos_ScoreOrder(sorted, entry) == Append(sorted, entry)

\* summarize.py:207
InsertByPos(sorted, entry) ==
  LET before == { k \in DOMAIN sorted : sorted[k].pos <= entry.pos }
      n == Cardinality(before)
  IN SubSeq(sorted, 1, n) \o << entry >> \o SubSeq(sorted, n + 1, Len(sorted))

RECURSIVE SortByPos(_, _)
SortByPos(sorted, rest) ==
  IF rest = << >> THEN sorted
  ELSE SortByPos(InsertByPos(sorted, Head(rest)), Tail(rest))

\* summary.split(): the words of the selected sentences, one after another
RECURSIVE AllWords(_)
AllWords(entries) ==
  IF entries = << >> THEN << >> ELSE Head(entries).words \o AllWords(Tail(entries))

\* summarize.py:125-224. The result is the text returned, the path the
\* branch that returned it, selected the original positions of the
\* sentences selected at summarize.py:178-187, in score order, and ranking
\* those of all sentences in score order.
create_summary(fragments, max_tokens, max_sentences) ==
  LET text == RawText(fragments)
      sentences == extract_sentences(fragments)
      ranking == SortScored(<< >>, Scored(sentences))
      selected == SelectLoop(ranking, << >>, 0, max_tokens, max_sentences)
      summary == Sentence(AllWords(SortByPos(<< >>, selected)))
      Out(result, path) ==
        [result |-> result, path |-> path,
         ranking |-> [k \in DOMAIN ranking |-> ranking[k].pos],
         selected |-> [k \in DOMAIN selected |-> selected[k].pos]]
  IN IF text = "" THEN [result |-> "", path |-> "empty", ranking |-> << >>,
                        selected |-> << >>]
     ELSE IF sentences = << >>
     THEN [result |-> IF Len(text) > RawCut THEN RawPrefix(text) ELSE text,
           path |-> "no sentence", ranking |-> << >>, selected |-> << >>]
     ELSE IF Len(sentences) = 1
     THEN IF count_tokens(Sentence(sentences[1])) <= max_tokens
          THEN [result |-> Sentence(sentences[1]), path |-> "one sentence",
                ranking |-> << 0 >>, selected |-> << >>]
          ELSE [result |-> Truncated(sentences[1], max_tokens),
                path |-> "one sentence truncated",
                ranking |-> << 0 >>, selected |-> << >>]
     ELSE IF selected = << >>
     THEN IF count_tokens(Sentence(ranking[1].words)) <= max_tokens
          THEN Out(Sentence(ranking[1].words), "best sentence")
          ELSE Out(Truncated(ranking[1].words, max_tokens), "best sentence truncated")
     ELSE IF count_tokens(summary) > max_tokens
     THEN Out(Truncated(AllWords(SortByPos(<< >>, selected)), max_tokens),
              "summary truncated")
     ELSE IF summary # "" THEN Out(summary, "summary")
     ELSE Out(RawPrefix(text), "summary empty")

\* The texts summarized: fragments of four words and more, of which some
\* are too short to be sentences, and a single long word.
SentenceA == << "Researchers", "found", "the", "AI", "chip", "fast" >>

SentenceB == << "Critics", "say", "pricing", "is", "unclear" >>

SentenceC == << "Is", "the", "new", "VR", "headset", "worth", "it?" >>

ShortFragment == << "Short", "title", "only" >>

\* Five words in twenty characters.
TwentyChars == << "AI", "chip", "is", "very", "fast" >>

LongWord == << FiftyChars \o FiftyChars \o FiftyChars \o FiftyChars \o "x" >>

SummaryFragments == { SentenceA, SentenceB, SentenceC, ShortFragment, TwentyChars }

\* A "?" before white space would end a fragment, so the fragment that ends
\* in one is the last of its text.
SummaryTexts ==
  { t \in SeqsUpTo(SummaryFragments, 3) :
      \A i \in DOMAIN t : t[i] = SentenceC => i = Len(t) }
  \cup { << LongWord >> }

MaxTokensChoices == { 0, 2, 4, 7, 15, 16, 150 }

MaxSentencesChoices == 0..3

NoSummary == [called |-> FALSE]

\* One call of create_summary(text, max_tokens, max_sentences).
SummaryCall ==
  /\ ~sm.called
  /\ ~sc.called
  /\ \E fragments \in SummaryTexts, max_tokens \in MaxTokensChoices,
        max_sentences \in MaxSentencesChoices :
       sm' = [called |-> TRUE, fragments |-> fragments, max_tokens |-> max_tokens,
              max_sentences |-> max_sentences,
              out |-> create_summary(fragments, max_tokens, max_sentences)]
  /\ UNCHANGED << dedupVars, filterVars, mainVars, urlVars, sc >>

SummaryReturn ==
  /\ sm.called
  /\ sm' = NoSummary
  /\ UNCHANGED << dedupVars, filterVars, mainVars, urlVars, sc >>

\* The sentences scored apart from a summary, and the largest number of
\* sentences of a text.
MaxTotalSentences == 5

NoScore == [called |-> FALSE]

\* One call of score_sentence(sentence, settings.keywords, position,
\* total_sentences); position_bonus is what summarize.py:91-96 add.
ScoreCall ==
  /\ ~sc.called
  /\ ~sm.called
  /\ \E words \in { SentenceA, SentenceB, SentenceC }, total_sentences \in 1..MaxTotalSentences :
       \E position \in 0..(total_sentences - 1) :
         sc' = [called |-> TRUE, words |-> words, position |-> position,
                total_sentences |-> total_sentences,
                position_bonus |-> PositionScore(position, total_sentences),
                score |-> score_sentence(words, position, total_sentences)]
  /\ UNCHANGED << dedupVars, filterVars, mainVars, urlVars, sm >>

ScoreReturn ==
  /\ sc.called
  /\ sc' = NoScore
  /\ UNCHANGED << dedupVars, filterVars, mainVars, urlVars, sm >>

\* ------------------------------------------------------------------------
\* app/main.py and app/gmail.py: the fetchers, filter_articles,
\* compose_telegram_message, main
\* ------------------------------------------------------------------------

\* main.py:92
SearchableText(article) == lower(article.title \o " " \o article.description)

\* main.py:95-99, the position in settings.keywords of the first keyword found
\* in the article's text; 0 when there is none.
FirstKeyword(article) ==
  LET found == { i \in DOMAIN keywords_lower :
                   Contains(keywords_lower[i], SearchableText(article)) }
  IN IF found = {} THEN 0 ELSE CHOOSE i \in found : \A j \in found : i <= j

\* url_cleaner.py:90, urlunparse: the URL as text
RECURSIVE QueryString(_)
QueryString(query) ==
  IF query = << >> THEN ""
  ELSE query[1][1] \o "=" \o query[1][2]
       \o (IF Len(query) = 1 THEN "" ELSE "&" \o QueryString(Tail(query)))

urlunparse(url) ==
  url.scheme \o "://" \o url.netloc \o url.path
  \o (IF url.query = << >> THEN "" ELSE "?" \o QueryString(url.query))

\* clean_and_resolve_url as the fetchers call it, on text: None, or the URL
\* returned. The links of the model's entries are on no shortener host, so
\* no request is made for them.
ResolvedLink(url) ==
  LET resolved == clean_and_resolve_url(url, HeadFailed, GetFailed)
  IN IF resolved = None THEN None ELSE Some(urlunparse(resolved[1]))

\* config.py:176
max_articles_per_source == 3

\* main.py:56
MaxAgeHours == 48

\* main.py:73
MinDescriptionLength == 200

\* An entry of a parsed feed: title and description are plain text without
\* markup or surrounding white space (which strip() and clean_html leave as
\* they are), link is << >> when the entry has none and << url >> otherwise,
\* age is the time since publication in hours.
Entry(title, description, link, age) ==
  [title |-> title, description |-> description, link |-> link, age |-> age]

\* main.py:59-70: the article built from an entry
EntryArticle(entry) ==
  Article(entry.title, entry.description,
          IF entry.link = << >> THEN Some("") ELSE ResolvedLink(entry.link[1]))

\* main.py:46-78, one entry: the articles appended for it
EntryArticles(entry) ==
  IF entry.age > MaxAgeHours THEN << >>
  ELSE IF Len(entry.description) >= MinDescriptionLength
  THEN << EntryArticle(entry) >>
  ELSE << >>

PlainUrl == Url("https", "example.com", "/a", << >>)

TrackedUrl == Url("https", "example.com", "/a", << <<"UTM_Source", "1">> >>)

LoginUrl == Url("https", "example.com", "/login", << >>)

\* The entries of the model's feed.
FeedEntries ==
  { Entry("AI chip", LongDescription, << PlainUrl >>, 1),
    Entry("AI game Review", LongDescription, << LoginUrl >>, 1),
    Entry("AI game Review", LongDescription, << PlainUrl >>, 1),
    Entry("VR headset", LongDescription, << TrackedUrl >>, 1),
    Entry("Zoo", LongDescription, << >>, 1),
    Entry("AI chip", ShortDescription, << PlainUrl >>, 1),
    Entry("AI chip", LongDescription, << PlainUrl >>, 72) }

\* EntryArticles, evaluated once for every entry of the model.
EntryArticlesOf == [e \in FeedEntries |-> EntryArticles(e)]

\* main.py:36-84: the articles of the first max_articles entries of a feed
RECURSIVE FeedLoop(_, _)
FeedLoop(i, entries) ==
  IF i > Len(entries) THEN << >>
  ELSE EntryArticlesOf[entries[i]] \o FeedLoop(i + 1, entries)

fetch_feed_articles(entries, max_articles) ==
  FeedLoop(1, SubSeq(entries, 1, Min(Len(entries), max_articles)))

\* A link extract_tech_links_from_email found (gmail.py:223): the URL, the
\* fields of the mail that go into the article, and head, the answer of the
\* network to the validating request of gmail.py:242.
MailLink(title, sender, subject, url, head) ==
  [title |-> title, sender |-> sender, subject |-> subject, url |-> url, head |-> head]

\* gmail.py:243-244
LooksLikeText(head) ==
  Contains("html", lower(head.content_type)) \/ Contains("text", lower(head.content_type))

\* gmail.py:226-263, one link: the articles appended for it
MailArticles(link) ==
  LET cleaned_url == ResolvedLink(link.url)
  IN IF cleaned_url = None THEN << >>
     ELSE IF ~link.head.ok THEN << >>
     ELSE IF ~LooksLikeText(link.head) THEN << >>
     ELSE << Article(link.title, "From " \o link.sender \o ": " \o link.subject,
                     cleaned_url) >>

HtmlAnswer == HeadResponse(PlainUrl, "text/html; charset=UTF-8")

PdfAnswer == HeadResponse(PlainUrl, "application/pdf")

MailLinks ==
  { MailLink("AI weekly", "news@example.com", "AI weekly", PlainUrl, HtmlAnswer),
    MailLink("AI weekly", "news@example.com", "AI weekly", PlainUrl, PdfAnswer),
    MailLink("AI weekly", "news@example.com", "AI weekly", LoginUrl, HtmlAnswer) }

MailArticlesOf == [l \in MailLinks |-> MailArticles(l)]

\* gmail.py:209-263: a URL that gave an article is not processed again
RECURSIVE MailLoop(_, _, _)
MailLoop(i, links, processed_urls) ==
  IF i > Len(links) THEN << >>
  ELSE IF links[i].url \in processed_urls THEN MailLoop(i + 1, links, processed_urls)
  ELSE MailArticlesOf[links[i]]
       \o MailLoop(i + 1, links,
                   IF MailArticlesOf[links[i]] = << >> THEN processed_urls
                   ELSE processed_urls \cup { links[i].url })

\* gmail.py:173-277
fetch_gmail_articles(links) == MailLoop(1, links, {})

\* The links found in the mails of one run.
MailBatches ==
  { << >> } \cup { << l >> : l \in MailLinks } \cup { << l, l >> : l \in MailLinks }

\* Lists of articles of several sources, as all_articles holds them after
\* main.py:226-247: four articles of the category AI with links of their own,
\* one of XR, one that no keyword matches.
PostChip == Article("AI chip", LongDescription, Some("https://example.com/a"))

PostReview == Article("AI game Review", LongDescription, Some("https://example.com/b"))

PostKit == Article("ML kit", LongDescription, Some("https://example.com/c"))

PostWeekly ==
  Article("AI weekly", "From news@example.com: AI weekly", Some("https://example.com/d"))

PostHeadset == Article("VR headset", LongDescription, Some("https://example.com/e"))

PostZoo == Article("Zoo", LongDescription, Some(""))

PostBatches ==
  { << >>, << PostZoo, PostChip >>, << PostHeadset, PostWeekly >>,
    << PostChip, PostReview, PostKit, PostWeekly >> }

\* How many further new articles a list of PostBatches comes with.
PostFillers == { 0, HistoryCeiling + 1 }

\* The articles the fetchers can return.
MainArticles ==
  UNION { Range(EntryArticlesOf[e]) : e \in FeedEntries }
  \cup UNION { Range(MailArticlesOf[l]) : l \in MailLinks }
  \cup UNION { Range(batch) : batch \in PostBatches }

\* FirstKeyword, evaluated once for every article of the model.
FirstKeywordOf == [a \in MainArticles |-> FirstKeyword(a)]

\* main.py:86-101, from position i: the articles kept in the order of the
\* batch, each as its position and the matched_keyword set on it.
RECURSIVE filter_articles(_, _)
filter_articles(i, articles) ==
  IF i > Len(articles) THEN << >>
  ELSE (IF FirstKeywordOf[articles[i]] # 0
        THEN << [pos |-> i, matched_keyword |-> keywords[FirstKeywordOf[articles[i]]]] >>
        ELSE << >>) \o filter_articles(i + 1, articles)

\* main.py:150-155, the category of a matched keyword ("" when none applies)
AnyIn(subs, text) == \E sub \in subs : Contains(sub, text)

Category(keyword) ==
  LET k == lower(keyword)
  IN IF AnyIn({"ai", "artificial intelligence", "machine learning", "ml", "gpt", "llm"}, k)
     THEN "AI"
     ELSE IF AnyIn({"music", "audio", "daw", "vst", "plugin"}, k)
     THEN "MusicTech"
     ELSE IF AnyIn({"xr", "vr", "ar", "mr", "virtual", "augmented", "mixed reality"}, k)
     THEN "XR"
     ELSE ""

\* main.py:148-155 and 170: the articles of one category in the order of the
\* list, cut to the first three.
PerCategoryLimit == 3

RECURSIVE InCategory(_, _, _)
InCategory(category, i, articles) ==
  IF i > Len(articles) THEN << >>
  ELSE (IF Category(articles[i].matched_keyword) = category THEN << i >> ELSE << >>)
         \o InCategory(category, i + 1, articles)

FirstOf(seq, n) == SubSeq(seq, 1, IF Len(seq) < n THEN Len(seq) ELSE n)

\* main.py:136-179: whether the message is the "No relevant news found" text,
\* and the positions (in the list given) of the articles it shows, in the
\* order AI, MusicTech, XR of main.py:142-146.
compose_telegram_message(articles) ==
  LET ai == InCategory("AI", 1, articles)
      music == InCategory("MusicTech", 1, articles)
      xr == InCategory("XR", 1, articles)
  IN IF articles = << >> \/ (ai = << >> /\ music = << >> /\ xr = << >>)
     THEN [no_news |-> TRUE, shown |-> << >>]
     ELSE [no_news |-> FALSE,
           shown |-> FirstOf(ai, PerCategoryLimit) \o FirstOf(music, PerCategoryLimit)
                       \o FirstOf(xr, PerCategoryLimit)]

\* summarized: the articles create_summary was called for (main.py:171), in the
\* order of the calls. filler: how many further articles the filtered list
\* holds after the ones the model names, each new (see FillerSizes).
NoRun ==
  [pc |-> "idle", all_articles |-> << >>, filtered_articles |-> << >>,
   unique_articles |-> << >>, message |-> [no_news |-> TRUE, shown |-> << >>],
   summarized |-> << >>, success |-> FALSE, gmail_articles |-> << >>,
   filler |-> 0]

\* main.py:223-235: the feed has been fetched and its articles added to
\* all_articles.
MainFetch ==
  /\ run.pc = "idle"
  /\ calls < MaxCalls
  /\ \E entries \in SeqsUpTo(FeedEntries, MaxBatch) :
       run' = [NoRun EXCEPT !.pc = "gmail",
                            !.all_articles =
                              fetch_feed_articles(entries, max_articles_per_source)]
  /\ UNCHANGED << dedupVars, filterVars, force_run, urlVars, sumVars >>

\* main.py:238-240: fetch_gmail_articles is an ordinary function (gmail.py:173)
\* and returns a list; main() awaits what it returned, and awaiting a list
\* raises TypeError, which leaves main() through main.py:277-279. The list
\* returned never reaches all_articles.
MainGmail ==
  /\ run.pc = "gmail"
  /\ \E links \in MailBatches :
       run' = [run EXCEPT !.pc = "raised",
                          !.gmail_articles = fetch_gmail_articles(links)]
  /\ UNCHANGED << dedupVars, filterVars, force_run, urlVars, sumVars >>

\* main.py:241-247 onwards, were the list of fetch_gmail_articles taken as it
\* is: all_articles holds the articles of the feed and of the mails, and the
\* stages of main.py:250-275 run on it.
PipelineStart ==
  /\ run.pc = "idle"
  /\ calls < MaxCalls
  /\ \E entries \in SeqsUpTo(FeedEntries, MaxBatch), links \in MailBatches :
       run' = [NoRun EXCEPT !.pc = "filter",
                            !.gmail_articles = fetch_gmail_articles(links),
                            !.all_articles =
                              fetch_feed_articles(entries, max_articles_per_source)
                              \o fetch_gmail_articles(links)]
  /\ UNCHANGED << dedupVars, filterVars, force_run, urlVars, sumVars >>

\* main.py:223-247 for sources that gave one of the lists of PostBatches, and
\* further articles that reach deduplicate_articles.
PostingStart ==
  /\ run.pc = "idle"
  /\ calls < MaxCalls
  /\ \E batch \in PostBatches, filler \in PostFillers :
       run' = [NoRun EXCEPT !.pc = "filter", !.all_articles = batch, !.filler = filler]
  /\ UNCHANGED << dedupVars, filterVars, force_run, urlVars, sumVars >>

\* main.py:250
MainFilter ==
  /\ run.pc = "filter"
  /\ run' = [run EXCEPT !.pc = "dedupe",
                        !.filtered_articles = filter_articles(1, run.all_articles)]
  /\ UNCHANGED << dedupVars, filterVars, force_run, urlVars, sumVars >>

\* main.py:253-259; an exception of deduplicate_articles leaves main() through
\* main.py:277-279.
MainDedupe ==
  /\ run.pc = "dedupe"
  /\ deduplicate_articles(
       [k \in DOMAIN run.filtered_articles |->
          run.all_articles[run.filtered_articles[k].pos]],
       run.filler)
  /\ run' = IF last'.raised THEN [run EXCEPT !.pc = "raised"]
            ELSE LET unique == [k \in DOMAIN last'.unique_articles |->
                                  run.filtered_articles[last'.unique_articles[k]]]
                 IN [run EXCEPT !.unique_articles = unique,
                                !.pc = IF unique = << >> /\ ~force_run
                                       THEN "skipped" ELSE "compose"]
  /\ UNCHANGED << filterVars, force_run, urlVars, sumVars >>

\* main.py:262, the list main() hands to compose_telegram_message
ComposeInput_Filtered(r) == r.filtered_articles

ComposeInput(r) == r.unique_articles

\* main.py:262-268; create_summary is called for every article the message
\* shows (main.py:170-171).
MainCompose ==
  /\ run.pc = "compose"
  /\ LET articles == ComposeInput(run)
         message == compose_telegram_message(articles)
     IN run' = [run EXCEPT !.message = message,
                           !.summarized = [k \in DOMAIN message.shown |->
                                             articles[message.shown[k]]],
                           !.pc = IF message.no_news /\ ~force_run
                                  THEN "skipped" ELSE "send"]
  /\ UNCHANGED << dedupVars, filterVars, force_run, urlVars, sumVars >>

\* main.py:270-275 and 181-210: sending succeeds or fails.
MainSend ==
  /\ run.pc = "send"
  /\ \E success \in BOOLEAN : run' = [run EXCEPT !.pc = "done", !.success = success]
  /\ UNCHANGED << dedupVars, filterVars, force_run, urlVars, sumVars >>

\* main() has returned or raised; the process may run it again.
MainEnd ==
  /\ run.pc \in {"done", "skipped", "raised"}
  /\ run' = NoRun
  /\ last' = NoCall
  /\ UNCHANGED << processed_articles, processed_other, calls, returned_since >>
  /\ UNCHANGED << filterVars, force_run, urlVars, sumVars >>

\* ------------------------------------------------------------------------
\* Initial state and specifications
\* ------------------------------------------------------------------------

Init ==
  /\ processed_articles = {}
  /\ processed_other = 0
  /\ calls = 0
  /\ last = NoCall
  /\ returned_since = {}
  /\ flt = NoFilterCall
  /\ run = NoRun
  /\ cu = NoClean
  /\ rs = NoResolve
  /\ head_net = << >>
  /\ get_net = << >>
  /\ cn = NoCanonical
  /\ fu = NoFetch
  /\ sm = NoSummary
  /\ sc = NoScore
  /\ force_run = FALSE

NextDedup == DedupCall \/ DedupReturn

SpecDedup == Init /\ [][NextDedup]_vars

NextDedupSteps == StepStart \/ StepItem \/ StepMerge \/ StepReturn

SpecDedupSteps == Init /\ [][NextDedupSteps]_vars

NextFilter == FilterCall \/ FilterReturn

SpecFilter == Init /\ [][NextFilter]_vars

\* settings.force_run is read from the environment (config.py:165).
InitMain ==
  /\ processed_articles = {}
  /\ processed_other = 0
  /\ calls = 0
  /\ last = NoCall
  /\ returned_since = {}
  /\ flt = NoFilterCall
  /\ run = NoRun
  /\ cu = NoClean
  /\ rs = NoResolve
  /\ head_net = << >>
  /\ get_net = << >>
  /\ cn = NoCanonical
  /\ fu = NoFetch
  /\ sm = NoSummary
  /\ sc = NoScore
  /\ force_run \in BOOLEAN

NextUrl ==
  \/ CleanCall \/ CleanAgain \/ CleanReturn
  \/ ResolveCall \/ ResolveAgain \/ ResolveReturn
  \/ CanonicalCall \/ CanonicalReturn

SpecUrl == Init /\ [][NextUrl]_vars

NextFetch == FetchCall \/ FetchAttempt \/ FetchEnd

SpecFetch == Init /\ [][NextFetch]_vars

NextSummary == SummaryCall \/ SummaryReturn \/ ScoreCall \/ ScoreReturn

SpecSummary == Init /\ [][NextSummary]_vars

NextMain == MainFetch \/ MainGmail \/ MainEnd

\* The stages of main() on the articles of both fetchers.
NextPipeline ==
  PipelineStart \/ MainFilter \/ MainDedupe \/ MainCompose \/ MainSend \/ MainEnd

SpecPipeline == InitMain /\ [][NextPipeline]_vars

SpecMain == InitMain /\ [][NextMain]_vars

\* The stages of main() on lists of several sources, over the runs of one
\* process.
NextPosting ==
  PostingStart \/ MainFilter \/ MainDedupe \/ MainCompose \/ MainSend \/ MainEnd

SpecPosting == InitMain /\ [][NextPosting]_vars

\* ------------------------------------------------------------------------
\* Properties of deduplicate_articles (checked under SpecDedup)
\* ------------------------------------------------------------------------

\* The last call returned a list (it did not raise).
Returned == last.called /\ ~last.raised

\* Positions in the batch of the last call.
Positions == DOMAIN last.articles

\* Positions of the articles the last call returned.
Kept == Range(last.unique_articles)

\* title + description
Content(article) == article.title \o article.description

\* The link in lower case, computed apart from ArticleUrl.
LowerLink(article) == lower(article.link[1])

\* C1 (as claimed): whenever deduplicate_articles evicts, processed_articles
\* holds at most 500 hashes right after the eviction.
C1_EvictionLeavesAtMost500 ==
  (last.called /\ last.evicted) => HistorySize <= 500

\* C2 (as claimed): after every return of deduplicate_articles the history
\* holds at most 1000 hashes.
C2_HistoryAtMostCeiling ==
  Returned => HistorySize <= HistoryCeiling

\* The returned list keeps the order of the batch and holds no two articles
\* with one content hash.
OnePerHashInOrder ==
  \A j, k \in DOMAIN last.unique_articles :
    j < k =>
      /\ last.unique_articles[j] < last.unique_articles[k]
      /\ ArticleHash(last.articles[last.unique_articles[j]])
           # ArticleHash(last.articles[last.unique_articles[k]])

\* C3 (as claimed): the returned list holds at most one article per content
\* hash, in the order of the batch, and of the articles of the batch with one
\* title+description no other than the first is returned.
C3_OnlyTheFirstSurvives ==
  Returned =>
    /\ OnePerHashInOrder
    /\ \A p \in Kept : \A i \in Positions :
         (i < p /\ Content(last.articles[i]) = Content(last.articles[p])) => FALSE

\* C3 (amended): the returned list holds at most one article per content hash,
\* in the order of the batch; when an article is returned although an earlier
\* article of the batch has the same title+description, that earlier article
\* was dropped because its non-empty lower-cased link is the link of an article
\* kept before it.
C3_OnePerHashFirstWithFreeLink ==
  Returned =>
    /\ OnePerHashInOrder
    /\ \A p \in Kept : \A i \in Positions :
         (i < p /\ Content(last.articles[i]) = Content(last.articles[p])) =>
           /\ i \notin Kept
           /\ LowerLink(last.articles[i]) # ""
           /\ \E q \in Kept :
                q < i /\ LowerLink(last.articles[q]) = LowerLink(last.articles[i])

\* C3 witness: a batch with two articles of one title+description whose first
\* is returned and whose second is dropped.
C3_Witness ==
  /\ Returned
  /\ \E i, j \in Positions :
       /\ i < j
       /\ Content(last.articles[i]) = Content(last.articles[j])
       /\ last.articles[i].link # last.articles[j].link
       /\ i \in Kept
       /\ j \notin Kept

\* C4: no article is returned whose non-empty link equals, in lower case, the
\* link of an article kept earlier in the batch, whatever its content; so no
\* two returned articles share a non-empty lower-cased link.
C4_OnePerLowerCasedLink ==
  Returned =>
    \A p \in Kept : \A i \in Positions :
      (p < i /\ LowerLink(last.articles[p]) # ""
             /\ LowerLink(last.articles[p]) = LowerLink(last.articles[i]))
        => i \notin Kept

\* C4 witness: two articles of different content whose links differ only in
\* case; the first is returned, the second dropped.
C4_Witness ==
  /\ Returned
  /\ last.before = {}
  /\ \E i, j \in Positions :
       /\ i < j
       /\ Content(last.articles[i]) # Content(last.articles[j])
       /\ last.articles[i].link # last.articles[j].link
       /\ LowerLink(last.articles[i]) = LowerLink(last.articles[j])
       /\ i \in Kept
       /\ j \notin Kept

\* C5: no call returns an article whose content hash was returned by an
\* earlier call, as long as no eviction happened since that earlier call.
C5_NeverReturnedTwice ==
  Returned =>
    \A p \in Kept : ArticleHash(last.articles[p]) \notin last.returned_before

\* C5 witness: a later call, with no eviction since, whose batch holds an
\* article an earlier call returned; it is dropped.
C5_Witness ==
  /\ Returned
  /\ \E i \in Positions :
       /\ ArticleHash(last.articles[i]) \in last.returned_before
       /\ i \notin Kept

\* ------------------------------------------------------------------------
\* Properties of config.filter_articles (checked under SpecFilter)
\* ------------------------------------------------------------------------

\* The text holds, in any case of letters, a keyword of the blocklist.
MentionsBlocked(text) ==
  \E i \in DOMAIN blocklist_lower : Contains(blocklist_lower[i], lower(text))

\* The text holds, in any case of letters, a keyword of the allowlist.
MentionsAllowed(text) ==
  \E i \in DOMAIN allowlist_lower : Contains(allowlist_lower[i], lower(text))

\* C6: config.filter_articles returns no article whose title or description
\* holds a blocklist keyword, whatever allowlist keywords it holds.
C6_BlocklistWins ==
  flt.called =>
    \A k \in DOMAIN flt.result :
      /\ ~MentionsBlocked(flt.articles[flt.result[k].pos].title)
      /\ ~MentionsBlocked(flt.articles[flt.result[k].pos].description)

\* C6 witness: an article holding an allowlist keyword in its title and a
\* blocklist keyword in its description only, no URL pattern set, rejected.
C6_Witness ==
  /\ flt.called
  /\ flt.patterns = << >>
  /\ \E i \in DOMAIN flt.articles :
       /\ MentionsAllowed(flt.articles[i].description)
       /\ ~MentionsBlocked(flt.articles[i].title)
       /\ MentionsBlocked(flt.articles[i].description)
       /\ \A k \in DOMAIN flt.result : flt.result[k].pos # i

\* ------------------------------------------------------------------------
\* Properties of the stages of main() (checked under SpecPipeline)
\* ------------------------------------------------------------------------

\* C7 (as claimed): in the stages main() chains no article whose title or description
\* holds a blocklist keyword is handed to deduplicate_articles or to
\* compose_telegram_message.
C7_NoBlockedArticlePastTheFilter ==
  /\ last.called =>
       \A i \in DOMAIN last.articles :
         /\ ~MentionsBlocked(last.articles[i].title)
         /\ ~MentionsBlocked(last.articles[i].description)
  /\ run.pc \in {"send", "done"} =>
       \A k \in DOMAIN run.unique_articles :
         /\ ~MentionsBlocked(run.all_articles[run.unique_articles[k].pos].title)
         /\ ~MentionsBlocked(run.all_articles[run.unique_articles[k].pos].description)

\* ------------------------------------------------------------------------
\* clean_url and clean_and_resolve_url
\* ------------------------------------------------------------------------

TrackingLower == { lower(t) : t \in TRACKING_PARAMS }

\* A parameter name that is a member of TRACKING_PARAMS when case is ignored.
IsTrackingName(name) == lower(Unquote(name)) \in TrackingLower

\* The parameters of a query whose names are not tracking names, decoded,
\* in the order of the query.
OtherParameters(query) ==
  SelectSeq([i \in DOMAIN query |-> << Unquote(query[i][1]), Unquote(query[i][2]) >>],
            LAMBDA kv : lower(kv[1]) \notin TrackingLower)

\* C8: the query string of clean_url(u) holds no parameter whose name is,
\* case ignored, a member of TRACKING_PARAMS.
C8_NoTrackingParameterLeft ==
  cu.called =>
    \A i \in DOMAIN cu.result.query : ~IsTrackingName(cu.result.query[i][1])

\* C9: the parameters of u that are no tracking parameters are the
\* parameters of clean_url(u) that are no tracking parameters, with the same
\* names and values in the same order, repeated names included; scheme (up
\* to case), host and path are those of u.
C9_OtherParametersKeptInOrder ==
  cu.called =>
    /\ OtherParameters(cu.result.query) = OtherParameters(cu.url.query)
    /\ lower(cu.result.scheme) = lower(cu.url.scheme)
    /\ cu.result.netloc = cu.url.netloc
    /\ cu.result.path = cu.url.path

\* C10 as stated: clean_url(clean_url(u)) = clean_url(u), and whenever
\* clean_and_resolve_url(u) returns a URL r, clean_and_resolve_url(r)
\* returns r under the same network.
C10_ResolvingTheResultReturnsIt ==
  /\ cu.again => cu.second = cu.result
  /\ rs.again => rs.second = rs.result

\* The second call makes no request the network has not answered already: r
\* is no shortened URL, or r is the URL the first call requested or the URL
\* its redirects ended at.
NothingNewToAsk ==
  \/ ~is_shortened_url(rs.result[1])
  \/ rs.result[1] = clean_url(rs.url)
  \/ /\ clean_url(rs.url) \in DOMAIN head_net
     /\ head_net[clean_url(rs.url)].ok
     /\ head_net[clean_url(rs.url)].url = rs.result[1]

\* C10: clean_url(clean_url(u)) = clean_url(u) for every u, and whenever
\* clean_and_resolve_url(u) returns a URL r for which the second call has
\* nothing new to ask of the network, clean_and_resolve_url(r) returns r.
C10_IdempotentWhenNothingNewToAsk ==
  /\ cu.again => cu.second = cu.result
  /\ rs.again /\ NothingNewToAsk => rs.second = rs.result

\* A shortened URL was resolved to a URL with a tracking parameter on another
\* host, the parameter was removed, and the second call returned the same.
C10_Witness ==
  /\ rs.again
  /\ is_shortened_url(rs.url)
  /\ ~is_shortened_url(rs.result[1])
  /\ head_net[clean_url(rs.url)].url.query = << <<"UTM_Source", "1">> >>
  /\ rs.result[1].query = << >>
  /\ rs.second = rs.result

\* ------------------------------------------------------------------------
\* create_summary
\* ------------------------------------------------------------------------

\* What the appended "..." can add to the estimate: three characters are at
\* most one token more.
EllipsisOverflow == 1

\* C11: for a non-empty text, the token estimate of what create_summary
\* returns is at most max_tokens, or at most one token more when the text
\* returned ends in the appended "...", on every return path.
C11_SummaryWithinBudget ==
  sm.called /\ sm.fragments # << >> =>
    count_tokens(sm.out.result) <= sm.max_tokens + EllipsisOverflow

\* ------------------------------------------------------------------------
\* The fetchers and the run of main()
\* ------------------------------------------------------------------------

\* C12 (as claimed): no article of the batch makes filter_articles,
\* deduplicate_articles or compose_telegram_message raise; the stages go on
\* to compose and send whatever the articles are.
C12_NoArticleAbortsTheRun == run.pc # "raised"

\* C14 (as claimed): no article returned by fetch_feed_articles or by
\* fetch_gmail_articles has the link None.
C14_NoArticleWithoutLink ==
  /\ \A i \in DOMAIN run.all_articles : run.all_articles[i].link # None
  /\ \A i \in DOMAIN run.gmail_articles : run.gmail_articles[i].link # None

\* ------------------------------------------------------------------------
\* url_cleaner: failures of the network
\* ------------------------------------------------------------------------

\* A request of the call of resolve_canonical_url failed: the HEAD request,
\* the validating GET (made when the HEAD response is no HTML), its
\* raise_for_status, or the GET of the page or its raise_for_status.
CanonicalRequestFailed ==
  \/ ~cn.head.ok
  \/ /\ ~HeadIsHtml(cn.head)
     /\ ~cn.get.ok \/ (Contains("text/html", lower(cn.get.content_type)) /\ ~cn.get.status_ok)
  \/ /\ cn.followed.value # None
     /\ ~cn.page.ok \/ ~cn.page.status_ok

\* A request of the first call of clean_and_resolve_url failed.
ResolveRequestFailed ==
  LET asked == clean_url(rs.url)
  IN /\ asked \in DOMAIN head_net
     /\ \/ ~head_net[asked].ok
        \/ /\ ~HeadIsHtml(head_net[asked])
           /\ head_net[asked].url \in DOMAIN get_net
           /\ LET g == get_net[head_net[asked].url]
              IN ~g.ok \/ (Contains("text/html", lower(g.content_type)) /\ ~g.status_ok)

\* C13: clean_and_resolve_url, follow_redirects_and_validate and
\* resolve_canonical_url never raise to their caller, and when a request
\* they made failed they return None.
C13_NetworkFailureGivesNone ==
  /\ cn.called =>
       /\ ~cn.followed.raised
       /\ ~cn.outcome.raised
       /\ CanonicalRequestFailed => cn.outcome.value = None
       /\ (~cn.head.ok \/ (~HeadIsHtml(cn.head) /\ ~cn.get.ok)) => cn.followed.value = None
  /\ rs.called =>
       /\ ~rs.raised
       /\ (~rs.again /\ ResolveRequestFailed) => rs.result = None

\* C13 happens: resolve_canonical_url validated the URL, the GET of the page
\* failed, and None came back without an exception.
C13_Witness ==
  /\ cn.called
  /\ cn.followed.value # None
  /\ ~cn.page.ok
  /\ cn.outcome = Returns(None)

\* Likewise a call of clean_and_resolve_url on a shortener URL whose HEAD
\* request failed.
C13_ShortenerUnanswered ==
  /\ rs.called /\ ~rs.again
  /\ clean_url(rs.url) \in DOMAIN head_net
  /\ ~head_net[clean_url(rs.url)].ok
  /\ rs.result = None /\ ~rs.raised

\* ------------------------------------------------------------------------
\* clean_and_resolve_url: the block check and the canonical URL
\* ------------------------------------------------------------------------

\* The host of the URL contains an entry of blocked_domains, or its path or
\* its query string contains an entry of banned_path_keywords, case ignored.
BlockRuleApplies(url) ==
  \/ \E i \in DOMAIN blocked_domains : Contains(blocked_domains[i], lower(url.netloc))
  \/ \E i \in DOMAIN banned_path_keywords :
       \/ Contains(banned_path_keywords[i], lower(url.path))
       \/ Contains(banned_path_keywords[i], lower(QueryString(url.query)))

\* C18 (as claimed): clean_and_resolve_url returns None, and makes no
\* request, for every URL whose host contains an entry of blocked_domains or
\* whose path or query string contains an entry of banned_path_keywords.
C18_BlockedUrlRejectedWithoutRequest ==
  rs.called /\ ~rs.again /\ BlockRuleApplies(rs.url) =>
    rs.result = None /\ head_net = << >> /\ get_net = << >>

\* C19: a URL returned by clean_and_resolve_url has no entry of
\* blocked_domains in its host and no entry of banned_path_keywords in its
\* path, also when redirects from a shortener URL led to it.
C19_ReturnedUrlPassesBlockCheck ==
  rs.called /\ rs.result # None =>
    /\ \A i \in DOMAIN blocked_domains :
         ~Contains(blocked_domains[i], lower(rs.result[1].netloc))
    /\ \A i \in DOMAIN banned_path_keywords :
         ~Contains(banned_path_keywords[i], lower(rs.result[1].path))

\* C19 happens: a shortener URL was redirected to another host and the URL
\* reached was returned.
C19_Witness ==
  /\ rs.called /\ ~rs.again
  /\ is_shortened_url(rs.url)
  /\ rs.result # None
  /\ rs.result[1].netloc # rs.url.netloc
  /\ head_net[clean_url(rs.url)].url.netloc = rs.result[1].netloc

\* The URL whose page the first call of clean_and_resolve_url ends at: the
\* URL the redirects led to when it followed them, else the cleaned URL.
ResolvedUrl ==
  IF is_shortened_url(clean_url(rs.url)) THEN head_net[clean_url(rs.url)].url
  ELSE clean_url(rs.url)

\* C20 (as claimed): when clean_and_resolve_url returns a URL, it is the
\* rel=canonical link of the resolved page, else its og:url, made absolute
\* and cleaned, and the cleaned resolved URL only when the page declares
\* neither.
C20_CanonicalUrlReturned ==
  rs.called /\ ~rs.again /\ rs.result # None =>
    rs.result[1] = CanonicalOf(rs.page, ResolvedUrl)

\* ------------------------------------------------------------------------
\* config.filter_articles: the score and the order
\* ------------------------------------------------------------------------

\* The entries of an allowlist that occur in a text, case ignored, for the
\* allowlists and the texts of the model.
AllowedInText ==
  [allowlist \in { c.allowlist : c \in FilterSettings },
   text \in { td[1] : td \in FilterTexts } \cup { td[2] : td \in FilterTexts } |->
     { i \in DOMAIN allowlist : Contains(allowlist[i], lower(text)) }]

\* The entries of the allowlist of the call that occur in the text.
AllowedIn(text) == AllowedInText[flt.allowlist, text]

\* C15: every article config.filter_articles accepts has the relevance_score
\* 2 * (allowlist keywords in the title) + (allowlist keywords in the
\* description that are not in the title), which is at least 1; an article
\* with no allowlist keyword is rejected, and with an empty allowlist every
\* article is.
C15_ScoreCountsTitleTwice ==
  flt.called =>
    /\ \A k \in DOMAIN flt.result :
         LET a == flt.articles[flt.result[k].pos]
         IN /\ flt.result[k].relevance_score =
                 2 * Cardinality(AllowedIn(a.title))
                 + Cardinality(AllowedIn(a.description) \ AllowedIn(a.title))
            /\ flt.result[k].relevance_score >= 1
    /\ \A i \in DOMAIN flt.articles :
         AllowedIn(flt.articles[i].title) \cup AllowedIn(flt.articles[i].description) = {}
           => \A k \in DOMAIN flt.result : flt.result[k].pos # i
    /\ flt.allowlist = << >> => flt.result = << >>

\* C15 happens: an accepted article names an allowlist keyword in its title
\* and in its description and another one in the description only.
C15_Witness ==
  /\ flt.called
  /\ \E k \in DOMAIN flt.result :
       LET a == flt.articles[flt.result[k].pos]
       IN /\ AllowedIn(a.title) \cap AllowedIn(a.description) # {}
          /\ AllowedIn(a.description) \ AllowedIn(a.title) # {}

\* With an empty allowlist a batch of articles was rejected whole.
C15_EmptyAllowlistRejects ==
  flt.called /\ flt.allowlist = << >> /\ Len(flt.articles) = MaxBatch /\ flt.result = << >>

\* C16: config.filter_articles returns the accepted articles by
\* non-increasing relevance_score, and articles of equal relevance_score in
\* the order they have in the batch.
C16_SortedByScoreStable ==
  flt.called =>
    \A k, l \in DOMAIN flt.result :
      k < l =>
        /\ flt.result[k].relevance_score >= flt.result[l].relevance_score
        /\ flt.result[k].relevance_score = flt.result[l].relevance_score
             => flt.result[k].pos < flt.result[l].pos

\* C16 happens: two articles of equal score come back behind an article of
\* higher score that was behind them in the batch.
C16_Witness ==
  /\ flt.called
  /\ Len(flt.result) = 3
  /\ flt.result[1].pos = 3
  /\ flt.result[2].relevance_score = flt.result[3].relevance_score
  /\ flt.articles[1] # flt.articles[2]

\* C17 (as claimed): every article a filter accepts carries a relevance_score
\* and a matched_keyword, with config.filter_articles and with
\* main.filter_articles.
C17_ScoreAndKeywordOnAccepted ==
  /\ \A k \in DOMAIN flt.result :
       {"relevance_score", "matched_keyword"} \subseteq DOMAIN flt.result[k]
  /\ \A k \in DOMAIN run.filtered_articles :
       {"relevance_score", "matched_keyword"} \subseteq DOMAIN run.filtered_articles[k]

\* ------------------------------------------------------------------------
\* follow_redirects_and_validate: the content type
\* ------------------------------------------------------------------------

\* A content type that contains text/html, or a text/* type.
IsTextType(content_type) ==
  \/ Contains("text/html", lower(content_type))
  \/ SubSeq(lower(content_type), 1, 5) = "text/"

\* The probe of the call of follow_redirects_and_validate was answered: the
\* HEAD request with HTML, or else the streamed GET, with a good status.
ProbeAnswered(h, g) == h.ok /\ (HeadIsHtml(h) \/ (g.ok /\ g.status_ok))

\* The content type the probe reported.
ProbeType(h, g) == IF HeadIsHtml(h) THEN h.content_type ELSE g.content_type

\* C21 (as claimed): follow_redirects_and_validate returns the resolved URL
\* when the probe reports a content type that contains text/html or is a
\* text/* type, and None for every other content type; so a shortener URL
\* whose probe reports such a type, and that ends at a URL that is not
\* blocked, is resolved by clean_and_resolve_url.
C21_TextTypesAccepted ==
  /\ cn.called /\ ProbeAnswered(cn.head, cn.get) =>
       (cn.followed.value # None <=> IsTextType(ProbeType(cn.head, cn.get)))
  /\ rs.called /\ ~rs.again /\ clean_url(rs.url) \in DOMAIN head_net =>
       LET h == head_net[clean_url(rs.url)]
           g == IF h.ok /\ h.url \in DOMAIN get_net THEN get_net[h.url] ELSE GetFailed
       IN ProbeAnswered(h, g) /\ ~FinalUrlBlocked(h.url) =>
            (rs.result # None <=> IsTextType(ProbeType(h, g)))

\* ------------------------------------------------------------------------
\* deduplicate_articles, statement by statement
\* ------------------------------------------------------------------------

\* C22: while the loop of a call of deduplicate_articles runs,
\* processed_articles is what it was when the call started, so every article
\* is tested against that history (an article is kept only if its hash is not
\* in it); the hashes kept are added to the history in one update after the
\* loop.
C22_HistoryUpdatedOncePerBatch ==
  last.called =>
    /\ last.pc = "loop" => processed_articles = last.before
    /\ \A k \in DOMAIN last.st.unique_articles :
         ArticleHash(last.articles[last.st.unique_articles[k]]) \notin last.before
    /\ \A j \in 1..(last.i - 1) :
         ArticleHash(last.articles[j]) \in last.before
           => j \notin Range(last.st.unique_articles)
    /\ last.pc = "done" /\ ~last.evicted =>
         processed_articles = last.before \cup last.st.current_hashes

\* C22 happens: in a later call two articles were examined, one was kept and
\* its hash is not yet in the history, which holds hashes of an earlier call.
C22_Witness ==
  /\ last.called
  /\ last.pc = "loop"
  /\ last.i > 2
  /\ last.before # {}
  /\ last.st.current_hashes # {}
  /\ last.st.current_hashes \cap processed_articles = {}

\* ------------------------------------------------------------------------
\* deduplicate_articles: what an eviction removes
\* ------------------------------------------------------------------------

\* The hashes the last call added to the history: those of the articles it
\* kept.
HashesKept == { ArticleHash(last.articles[p]) : p \in Kept }

\* C23 (as claimed): when a call of deduplicate_articles that adds at most
\* 500 hashes evicts, every hash it added is in processed_articles after the
\* eviction.
C23_EvictionKeepsTheNewest ==
  Returned /\ last.evicted /\ Cardinality(HashesKept) + last.filler <= EvictSlice =>
    HashesKept \subseteq processed_articles

\* ------------------------------------------------------------------------
\* create_summary: the sentences selected and their order
\* ------------------------------------------------------------------------

\* The sentences of the text of the call.
SentencesOfCall == extract_sentences(sm.fragments)

\* The sentence at an original position (positions count from 0).
SentenceAt(pos) == Sentence(SentencesOfCall[pos + 1])

\* The members of a set of numbers in increasing order.
Ascending(S) ==
  CHOOSE f \in [1..Cardinality(S) -> S] :
    \A i, j \in 1..Cardinality(S) : i < j => f[i] < f[j]

\* The selected sentences in the order of the text, with one space between
\* two of them.
SelectedInTextOrder ==
  LET order == Ascending(Range(sm.out.selected))
  IN JoinWith([k \in DOMAIN order |-> SentenceAt(order[k])], " ")

\* C24: when create_summary selects two or more sentences, the summary
\* holds them in the order of their positions in the text, joined by single
\* spaces; a summary over the budget is that text cut after a word, with
\* "..." appended.
C24_SelectedInOriginalOrder ==
  sm.called /\ Len(sm.out.selected) >= 2 =>
    \/ sm.out.path = "summary" /\ sm.out.result = SelectedInTextOrder
    \/ /\ sm.out.path = "summary truncated"
       /\ \E n \in 0..Len(SelectedInTextOrder) :
            sm.out.result = SubSeq(SelectedInTextOrder, 1, n) \o "..."

\* C24 happens: two sentences were selected, the later one of the text
\* first, and the summary has them in the order of the text.
C24_Witness ==
  /\ sm.called
  /\ Len(sm.out.selected) = 2
  /\ sm.out.selected[1] > sm.out.selected[2]
  /\ sm.out.path = "summary"
  /\ sm.out.result = SentenceAt(sm.out.selected[2]) \o " " \o SentenceAt(sm.out.selected[1])

\* C25 (as claimed): extract_sentences keeps a fragment if and only if it
\* has at least 20 characters and at least 4 words.
C25_KeptFromTwentyCharacters ==
  sm.called =>
    \A i \in DOMAIN sm.fragments :
      (\E k \in DOMAIN SentencesOfCall : SentencesOfCall[k] = sm.fragments[i])
        <=> (Len(Sentence(sm.fragments[i])) >= 20 /\ Len(sm.fragments[i]) >= 4)

\* The estimate for the sentence at an original position.
TokensAt(pos) == count_tokens(SentenceAt(pos))

RECURSIVE TokensOf(_)
TokensOf(positions) ==
  IF positions = << >> THEN 0 ELSE TokensAt(Head(positions)) + TokensOf(Tail(positions))

\* The score of the sentence at an original position.
ScoreAt(pos) == score_sentence(SentencesOfCall[pos + 1], pos, Len(SentencesOfCall))

\* C27: with two or more sentences, the sentences selected are the first
\* ones of the ranking by descending score, up to the first that would make
\* them more than max_sentences or their tokens more than max_tokens; and
\* when the first of the ranking does not fit the budget, the result is that
\* sentence cut after a word, with "..." appended.
C27_GreedyPrefixOfRanking ==
  sm.called /\ Len(SentencesOfCall) >= 2 =>
    LET ranking == sm.out.ranking
        selected == sm.out.selected
        n == Len(selected)
    IN /\ \A k, l \in DOMAIN ranking : k < l => ScoreAt(ranking[k]) >= ScoreAt(ranking[l])
       /\ selected = SubSeq(ranking, 1, n)
       /\ n <= sm.max_sentences
       /\ TokensOf(selected) <= sm.max_tokens
       /\ n < Len(ranking) =>
            \/ n >= sm.max_sentences
            \/ TokensOf(selected) + TokensAt(ranking[n + 1]) > sm.max_tokens
       /\ TokensAt(ranking[1]) > sm.max_tokens =>
            /\ n = 0
            /\ \E m \in 0..Len(SentencesOfCall[ranking[1] + 1]) :
                 sm.out.result =
                   Sentence(SubSeq(SentencesOfCall[ranking[1] + 1], 1, m)) \o "..."

\* C27 happens: of three ranked sentences the selection stopped, within
\* max_sentences, at one that did not fit the budget.
C27_Witness ==
  /\ sm.called
  /\ Len(sm.out.ranking) = 3
  /\ Len(sm.out.selected) = 1
  /\ sm.max_sentences = 3
  /\ TokensAt(sm.out.ranking[1]) + TokensAt(sm.out.ranking[2]) > sm.max_tokens

\* No sentence fits: the first of the ranking comes back cut, with "...".
C27_NoneFits ==
  /\ sm.called
  /\ Len(SentencesOfCall) >= 2
  /\ sm.out.selected = << >>
  /\ sm.max_tokens > 0
  /\ sm.out.path = "best sentence truncated"
  /\ Len(sm.out.result) > 3

\* ------------------------------------------------------------------------
\* score_sentence: the position bonus
\* ------------------------------------------------------------------------

\* C26 (as claimed): with more than one sentence the position bonus is 1.5
\* at index 0, 1.0 for every sentence at index 1 or 2, and 0.5 for the last
\* sentence (scores in tenths).
C26_EarlyAndLastBonus ==
  sc.called /\ sc.total_sentences > 1 =>
    /\ sc.position = 0 => sc.position_bonus = 15
    /\ sc.position \in {1, 2} => sc.position_bonus = 10
    /\ sc.position = sc.total_sentences - 1 /\ sc.position > 2 => sc.position_bonus = 5

\* What score_sentence gives instead: the last sentence gets 0.5 also at
\* index 1 or 2, and 1.0 goes to index 1 and 2 only when that is not the
\* last sentence.
C26_LastBeforeEarlyBonus ==
  sc.called /\ sc.total_sentences > 1 =>
    sc.position_bonus =
      IF sc.position = 0 THEN 15
      ELSE IF sc.position = sc.total_sentences - 1 THEN 5
      ELSE IF sc.position \in {1, 2} THEN 10
      ELSE 0

\* ------------------------------------------------------------------------
\* fetch_url: retries
\* ------------------------------------------------------------------------

\* ------------------------------------------------------------------------
\* Order of the stages of main() (checked under SpecPipeline)
\* ------------------------------------------------------------------------

\* The articles the last call of deduplicate_articles returned, as main()
\* holds them (position in all_articles and matched_keyword).
ReturnedByDedupe ==
  IF last.called /\ ~last.raised
  THEN { run.filtered_articles[last.unique_articles[k]] : k \in DOMAIN last.unique_articles }
  ELSE {}

\* The stage a position of main() belongs to: 1 fetching and normalizing,
\* 2 filter_articles, 3 deduplicate_articles, 4 compose_telegram_message with
\* create_summary, 5 sending.
StageOf(pc) ==
  CASE pc = "idle" -> 0
    [] pc = "filter" -> 1
    [] pc = "dedupe" -> 2
    [] pc = "compose" -> 3
    [] pc = "send" -> 4
    [] OTHER -> 5

\* One step of a run: a stage starts only when the one before it has
\* returned, and the list a stage has returned is not touched again.
StagesStep ==
  /\ run'.pc \in {"filter", "dedupe", "compose", "send"} =>
       StageOf(run'.pc) = StageOf(run.pc) + 1
  /\ StageOf(run.pc) >= 1 /\ run'.pc # "idle" => run'.all_articles = run.all_articles
  /\ StageOf(run.pc) >= 2 /\ run'.pc # "idle" =>
       run'.filtered_articles = run.filtered_articles
  /\ StageOf(run.pc) >= 3 /\ run'.pc # "idle" =>
       run'.unique_articles = run.unique_articles
  /\ StageOf(run.pc) < 3 => run'.summarized = << >>
  /\ StageOf(run.pc) < 1 => run'.filtered_articles = << >>
  /\ StageOf(run.pc) < 2 => run'.unique_articles = << >>

Deduplicated == run.pc \in {"compose", "send", "done"} /\ last.called /\ ~last.raised

\* The hash of an article main() holds as position and matched_keyword.
HashOf(item) == ArticleHash(run.all_articles[item.pos])

UniqueHashes == { HashOf(run.unique_articles[k]) : k \in DOMAIN run.unique_articles }

\* The hashes of the articles the message shows.
ShownHashes == { HashOf(run.summarized[k]) : k \in DOMAIN run.summarized }

\* C30 (as claimed): the hash of every article deduplicate_articles returned
\* is in processed_articles while the message is composed and sent and stays
\* there afterwards.
C30_HashStaysInHistory ==
  /\ [](Deduplicated => UniqueHashes \subseteq processed_articles)
  /\ [][processed_articles \subseteq processed_articles']_vars

\* One step of a run: only deduplicate_articles changes the history.
HistoryStep ==
  run.pc # "dedupe" =>
    /\ processed_articles' = processed_articles
    /\ processed_other' = processed_other

\* C30: compose_telegram_message and send_telegram_message leave
\* processed_articles as deduplicate_articles left it; unless that call
\* evicted, the hash of every article it returned is in the history whether
\* the article is shown, left out by the limit of three per category, or the
\* sending fails; and no article whose hash is in the history when
\* deduplicate_articles is called is shown in the message of that run.
C30_UnsentStaysInHistory ==
  /\ [][HistoryStep]_vars
  /\ [](Deduplicated /\ ~last.evicted => UniqueHashes \subseteq processed_articles)
  /\ [](Deduplicated => ShownHashes \cap last.before = {})

\* C30 witness: a run whose sending failed and whose message left out an
\* article by the limit of three per category; the hashes of all the articles
\* deduplicate_articles returned are in the history.
C30_Witness ==
  /\ Deduplicated /\ run.pc = "done" /\ ~run.success
  /\ ~last.evicted
  /\ UniqueHashes \ ShownHashes # {}
  /\ UniqueHashes \subseteq processed_articles

\* A later run: an article whose hash an earlier run left in the history is
\* in the filtered list and is not returned by deduplicate_articles.
C30_RejectedLater ==
  /\ Deduplicated
  /\ \E p \in DOMAIN run.filtered_articles :
       /\ HashOf(run.filtered_articles[p]) \in last.before
       /\ HashOf(run.filtered_articles[p]) \notin UniqueHashes

\* The hash of an article just accepted is evicted by the same call.
C30_EvictedAtOnce ==
  Deduplicated /\ last.evicted /\ UniqueHashes \ processed_articles # {}

\* The request of an attempt failed: an exception, or a status other than
\* 200.
RequestFailed(answer) == ~answer.ok \/ answer.status # 200

\* C29 (as claimed): a call of fetch_url whose request fails makes another
\* attempt, up to three, before it returns None.
C29_ThreeAttemptsBeforeNone ==
  /\ fu.pc = "done" /\ fu.result = None => fu.attempts = MaxAttempts
  /\ fu.pc = "done" /\ RequestFailed(fu.answers[1]) => fu.attempts > 1

\* What fetch_url does instead: one request, whatever its answer.
C29_OneAttemptOnly ==
  fu.pc = "done" => fu.attempts = 1 /\ ~fu.raised

====
